---- MODULE Spec2Model ----
(***************************************************************************)
(* A model of tinymce's html.Schema (api/html/Schema.ts): the base grammar *)
(* builder compileSchema, the process-wide mapCache, and one schema        *)
(* instance's rule tables with the mutators addValidElements,              *)
(* setValidElements, addCustomElements, addValidChildren and the queries   *)
(* getElementRule, isValid, isValidChild.                                  *)
(*                                                                         *)
(* Names and rule strings are TLA+ strings, read character by character.   *)
(* JavaScript objects that the code shares by reference and mutates in     *)
(* place (the child sets of the children graph, the classification maps)   *)
(* live in a heap and are held by reference; objects that are only read    *)
(* after they are built (attribute maps, element rules) are values.        *)
(* The rule tables are mappings over element names; names inherited from   *)
(* Object.prototype are outside the name universe.                         *)
(***************************************************************************)
EXTENDS Integers, Sequences, FiniteSets, TLC

(***************************************************************************)
(* Strings                                                                 *)
(***************************************************************************)

Undefined == "undefined"

\* TRUE for every value v. TLC evaluates an operator's argument where it is
\* first used; a guard Evaluated(v) makes that happen at the guard, which
\* keeps the evaluation of long folds shallow.
Evaluated(v) == v = v

CharAt(s, i) == SubSeq(s, i, i)

LowerChars == "abcdefghijklmnopqrstuvwxyz"
UpperChars == "ABCDEFGHIJKLMNOPQRSTUVWXYZ"
DigitChars == "0123456789"

RECURSIVE IndexOf(_, _, _)
\* String.prototype.indexOf(c, from) for a one-character c; 0 when absent
\* (positions are 1-based here).
IndexOf(s, c, from) ==
  IF from > Len(s) THEN 0
  ELSE IF CharAt(s, from) = c THEN from
  ELSE IndexOf(s, c, from + 1)

Contains(s, c) == IndexOf(s, c, 1) # 0

ToLowerChar(c) ==
  LET k == IndexOf(UpperChars, c, 1) IN IF k = 0 THEN c ELSE CharAt(LowerChars, k)

ToUpperChar(c) ==
  LET k == IndexOf(LowerChars, c, 1) IN IF k = 0 THEN c ELSE CharAt(UpperChars, k)

RECURSIVE ToLowerCase(_)
\* String.prototype.toLowerCase, by halves.
ToLowerCase(s) ==
  IF Len(s) = 0 THEN ""
  ELSE IF Len(s) = 1 THEN ToLowerChar(s)
  ELSE LET h == Len(s) \div 2 IN
       ToLowerCase(SubSeq(s, 1, h)) \o ToLowerCase(SubSeq(s, h + 1, Len(s)))

RECURSIVE ToUpperCase(_)
\* String.prototype.toUpperCase, by halves.
ToUpperCase(s) ==
  IF Len(s) = 0 THEN ""
  ELSE IF Len(s) = 1 THEN ToUpperChar(s)
  ELSE LET h == Len(s) \div 2 IN
       ToUpperCase(SubSeq(s, 1, h)) \o ToUpperCase(SubSeq(s, h + 1, Len(s)))

RECURSIVE TrimLeft(_)
TrimLeft(s) == IF s # "" /\ Head(s) = " " THEN TrimLeft(Tail(s)) ELSE s

RECURSIVE TrimRight(_)
TrimRight(s) ==
  IF s # "" /\ CharAt(s, Len(s)) = " " THEN TrimRight(SubSeq(s, 1, Len(s) - 1)) ELSE s

\* Tools.trim
Trim(s) == TrimRight(TrimLeft(s))

RECURSIVE StrSplit(_, _)
\* String.prototype.split(delim) for a one-character delimiter: empty pieces
\* are kept. The string is cut at the first delimiter at or after its middle
\* (at its first delimiter when there is none) and both sides are split.
StrSplit(s, delim) ==
  LET k == IndexOf(s, delim, (Len(s) \div 2) + 1)
      j == IF k # 0 THEN k ELSE IndexOf(s, delim, 1)
  IN IF j = 0 THEN <<s>>
     ELSE StrSplit(SubSeq(s, 1, j - 1), delim) \o StrSplit(SubSeq(s, j + 1, Len(s)), delim)

\* split(items, delim): trims the whole string, yields [] for the empty one.
split(items, delim) ==
  LET t == Trim(items) IN IF t = "" THEN <<>> ELSE StrSplit(t, delim)

Range(seq) == {seq[k] : k \in 1..Len(seq)}

RECURSIVE join(_)
\* [a, b, ...].join(' ')
join(seq) ==
  IF seq = <<>> THEN ""
  ELSE IF Len(seq) = 1 THEN seq[1]
  ELSE seq[1] \o " " \o join(Tail(seq))

\* Tools.inArray(arr, v): the 0-based index of v in arr, -1 when absent.
inArray(arr, v) ==
  IF \E k \in 1..Len(arr) : arr[k] = v
  THEN (CHOOSE k \in 1..Len(arr) : arr[k] = v /\ \A j \in 1..(k - 1) : arr[j] # v) - 1
  ELSE -1

\* Array.prototype.splice(start, 1) for start >= -1: a negative start counts
\* from the end of the array.
splice1(arr, start) ==
  LET at == IF start < 0 THEN Len(arr) + start + 1 ELSE start + 1 IN
  IF at < 1 \/ at > Len(arr) THEN arr
  ELSE SubSeq(arr, 1, at - 1) \o SubSeq(arr, at + 1, Len(arr))

(***************************************************************************)
(* compileSchema: the base grammar of a schema type.                       *)
(***************************************************************************)

SchemaTypes == {"html4", "html5", "html5-strict", Undefined}

\* attr = {}: an attribute rule is an object with only the fields that were
\* set on it (required, defaultValue, forcedValue, validValues, pattern).
EmptyAttr == <<>>

\* arrayToMap(array): every entry mapped to {}.
arrayToMap(array) == [a \in Range(array) |-> EmptyAttr]

\* add(name, attributes, children) for one schema table: every name gets the
\* global attributes followed by its own, and its own child map.
add(schema, globalAttributes, name, attributes, children) ==
  LET names == split(name, " ")
      attributesOrder == split(join(<<globalAttributes, attributes>>), " ")
      element == [attributes |-> arrayToMap(attributesOrder),
                  attributesOrder |-> attributesOrder,
                  children |-> Range(split(children, " "))]
  IN [n \in Range(names) |-> element] @@ schema

\* addAttrs(name, attributes): appends to the attribute map and order of the
\* named elements.
addAttrs(schema, name, attributes) ==
  LET names == split(name, " ")
      attrs == split(attributes, " ")
  IN [n \in Range(names) |->
        [schema[n] EXCEPT !.attributes = arrayToMap(attrs) @@ @,
                          !.attributesOrder = @ \o attrs]] @@ schema

\* One add(...) or addAttrs(...) statement of compileSchema.
applyStatement(schema, globalAttributes, st) ==
  IF st[1] = "add"
  THEN add(schema, globalAttributes, st[2], st[3], st[4])
  ELSE addAttrs(schema, st[2], st[3])

RECURSIVE applyAll(_, _, _)
\* The statements stmts run in program order on the table (the sequence is
\* halved so that the evaluation stays shallow).
applyAll(schema, globalAttributes, stmts) ==
  IF ~Evaluated(schema) \/ stmts = <<>> THEN schema
  ELSE IF Len(stmts) = 1 THEN applyStatement(schema, globalAttributes, stmts[1])
  ELSE LET h == Len(stmts) \div 2 IN
       applyAll(applyAll(schema, globalAttributes, SubSeq(stmts, 1, h)),
                globalAttributes, SubSeq(stmts, h + 1, Len(stmts)))

\* each(split(names), name => add(name, '', children)) as statements.
addEach(names, children) == [k \in 1..Len(names) |-> <<"add", names[k], "", children>>]

RECURSIVE deleteSelfChild(_, _)
\* each(split('a form meter progress dfn'), name => delete schema[name].children[name])
deleteSelfChild(schema, names) ==
  IF names = <<>> THEN schema
  ELSE LET n == names[1] IN
       deleteSelfChild(IF n \in DOMAIN schema
                       THEN [schema EXCEPT ![n].children = @ \ {n}]
                       ELSE schema,
                       Tail(names))

Html5GlobalAttributes ==
  " contenteditable contextmenu draggable dropzone " \o "hidden spellcheck translate"

Html5BlockContent ==
  " article aside details dialog figure main header footer hgroup section nav"

Html5PhrasingContent ==
  " audio canvas command datalist mark meter output picture " \o
  "progress time wbr video ruby bdi keygen"

html4PhrasingContent == "acronym applet basefont big font strike tt"

html4BlockContent == "center dir isindex noframes"

globalAttributesOf(type) ==
  LET g0 == "id accesskey class dir lang style tabindex title role"
      g1 == IF type # "html4" THEN g0 \o Html5GlobalAttributes ELSE g0
  IN IF type # "html5-strict" THEN g1 \o " xml:lang" ELSE g1

blockContentOf(type) ==
  LET b0 == "address blockquote div dl fieldset form h1 h2 h3 h4 h5 h6 hr menu ol p pre table ul"
      b1 == IF type # "html4" THEN b0 \o Html5BlockContent ELSE b0
  IN IF type # "html5-strict" THEN join(<<b1, html4BlockContent>>) ELSE b1

phrasingContentOf(type) ==
  LET p0 == "a abbr b bdo br button cite code del dfn em embed i iframe img input ins kbd " \o
            "label map noscript object q s samp script select small span strong sub sup " \o
            "textarea u var #text #comment"
      p1 == IF type # "html4" THEN p0 \o Html5PhrasingContent ELSE p0
  IN IF type # "html5-strict" THEN join(<<p1, html4PhrasingContent>>) ELSE p1

flowContentOf(type) == join(<<blockContentOf(type), phrasingContentOf(type)>>)

\* add(...) statements common to every type (the "HTML4 base schema" block).
baseStatements(type, phrasingContent, flowContent) ==
  <<
    <<"add", "html", "manifest", "head body">>,
    <<"add", "head", "", "base command link meta noscript script style title">>,
    <<"add", "title hr noscript br", "", "">>,
    <<"add", "base", "href target", "">>,
    <<"add", "link", "href rel media hreflang type sizes hreflang", "">>,
    <<"add", "meta", "name http-equiv content charset", "">>,
    <<"add", "style", "media type scoped", "">>,
    <<"add", "script", "src async defer type charset", "">>,
    <<"add", "body", "onafterprint onbeforeprint onbeforeunload onblur onerror onfocus " \o
         "onhashchange onload onmessage onoffline ononline onpagehide onpageshow " \o
         "onpopstate onresize onscroll onstorage onunload", flowContent>>,
    <<"add", "address dt dd div caption", "", flowContent>>,
    <<"add", "h1 h2 h3 h4 h5 h6 pre p abbr code var samp kbd sub sup i b u bdo span legend em strong small s cite dfn",
         "", phrasingContent>>,
    <<"add", "blockquote", "cite", flowContent>>,
    <<"add", "ol", "reversed start type", "li">>,
    <<"add", "ul", "", "li">>,
    <<"add", "li", "value", flowContent>>,
    <<"add", "dl", "", "dt dd">>,
    <<"add", "a", "href target rel media hreflang type", phrasingContent>>,
    <<"add", "q", "cite", phrasingContent>>,
    <<"add", "ins del", "cite datetime", flowContent>>,
    <<"add", "img", "src sizes srcset alt usemap ismap width height", "">>,
    <<"add", "iframe", "src name width height", flowContent>>,
    <<"add", "embed", "src type width height", "">>,
    <<"add", "object", "data type typemustmatch name usemap form width height",
         join(<<flowContent, "param">>)>>,
    <<"add", "param", "name value", "">>,
    <<"add", "map", "name", join(<<flowContent, "area">>)>>,
    <<"add", "area", "alt coords shape href target rel media hreflang type", "">>,
    <<"add", "table", "border",
         "caption colgroup thead tfoot tbody tr" \o (IF type = "html4" THEN " col" ELSE "")>>,
    <<"add", "colgroup", "span", "col">>,
    <<"add", "col", "span", "">>,
    <<"add", "tbody thead tfoot", "", "tr">>,
    <<"add", "tr", "", "td th">>,
    <<"add", "td", "colspan rowspan headers", flowContent>>,
    <<"add", "th", "colspan rowspan headers scope abbr", flowContent>>,
    <<"add", "form", "accept-charset action autocomplete enctype method name novalidate target",
         flowContent>>,
    <<"add", "fieldset", "disabled form name", join(<<flowContent, "legend">>)>>,
    <<"add", "label", "form for", phrasingContent>>,
    <<"add", "input", "accept alt autocomplete checked dirname disabled form formaction formenctype formmethod formnovalidate " \o
         "formtarget height list max maxlength min multiple name pattern readonly required size src step type value width",
         "">>,
    <<"add", "button", "disabled form formaction formenctype formmethod formnovalidate formtarget name type value",
         IF type = "html4" THEN flowContent ELSE phrasingContent>>,
    <<"add", "select", "disabled form multiple name required size", "option optgroup">>,
    <<"add", "optgroup", "disabled label", "option">>,
    <<"add", "option", "disabled label selected value", "">>,
    <<"add", "textarea", "cols dirname disabled form maxlength name readonly required rows wrap", "">>,
    <<"add", "menu", "type label", join(<<flowContent, "li">>)>>,
    <<"add", "noscript", "", flowContent>>
  >>

\* "Extend with HTML5 elements"
html5Statements(phrasingContent, flowContent) ==
  <<
    <<"add", "wbr", "", "">>,
    <<"add", "ruby", "", join(<<phrasingContent, "rt rp">>)>>,
    <<"add", "figcaption", "", flowContent>>,
    <<"add", "mark rt rp summary bdi", "", phrasingContent>>,
    <<"add", "canvas", "width height", flowContent>>,
    <<"add", "video", "src crossorigin poster preload autoplay mediagroup loop " \o
         "muted controls width height buffered", join(<<flowContent, "track source">>)>>,
    <<"add", "audio", "src crossorigin preload autoplay mediagroup loop muted controls " \o
         "buffered volume", join(<<flowContent, "track source">>)>>,
    <<"add", "picture", "", "img source">>,
    <<"add", "source", "src srcset type media sizes", "">>,
    <<"add", "track", "kind src srclang label default", "">>,
    <<"add", "datalist", "", join(<<phrasingContent, "option">>)>>,
    <<"add", "article section nav aside main header footer", "", flowContent>>,
    <<"add", "hgroup", "", "h1 h2 h3 h4 h5 h6">>,
    <<"add", "figure", "", join(<<flowContent, "figcaption">>)>>,
    <<"add", "time", "datetime", phrasingContent>>,
    <<"add", "dialog", "open", flowContent>>,
    <<"add", "command", "type label icon disabled checked radiogroup command", "">>,
    <<"add", "output", "for form name", phrasingContent>>,
    <<"add", "progress", "value max", phrasingContent>>,
    <<"add", "meter", "value min max low high optimum", phrasingContent>>,
    <<"add", "details", "open", join(<<flowContent, "summary">>)>>,
    <<"add", "keygen", "autofocus challenge disabled form keytype name", "">>
  >>

\* "Extend with HTML4 attributes unless it's html5-strict"
html4AttrStatements ==
  <<
    <<"addAttrs", "script", "language xml:space">>,
    <<"addAttrs", "style", "xml:space">>,
    <<"addAttrs", "object", "declare classid code codebase codetype archive standby align border hspace vspace">>,
    <<"addAttrs", "embed", "align name hspace vspace">>,
    <<"addAttrs", "param", "valuetype type">>,
    <<"addAttrs", "a", "charset name rev shape coords">>,
    <<"addAttrs", "br", "clear">>,
    <<"addAttrs", "applet", "codebase archive code object alt name width height align hspace vspace">>,
    <<"addAttrs", "img", "name longdesc align border hspace vspace">>,
    <<"addAttrs", "iframe", "longdesc frameborder marginwidth marginheight scrolling align">>,
    <<"addAttrs", "font basefont", "size color face">>,
    <<"addAttrs", "input", "usemap align">>,
    <<"addAttrs", "select", "">>,
    <<"addAttrs", "textarea", "">>,
    <<"addAttrs", "h1 h2 h3 h4 h5 h6 div p legend caption", "align">>,
    <<"addAttrs", "ul", "type compact">>,
    <<"addAttrs", "li", "type">>,
    <<"addAttrs", "ol dl menu dir", "compact">>,
    <<"addAttrs", "pre", "width xml:space">>,
    <<"addAttrs", "hr", "align noshade size width">>,
    <<"addAttrs", "isindex", "prompt">>,
    <<"addAttrs", "table", "summary width frame rules cellspacing cellpadding align bgcolor">>,
    <<"addAttrs", "col", "width align char charoff valign">>,
    <<"addAttrs", "colgroup", "width align char charoff valign">>,
    <<"addAttrs", "thead", "align char charoff valign">>,
    <<"addAttrs", "tr", "align char charoff valign bgcolor">>,
    <<"addAttrs", "th", "axis align char charoff valign nowrap bgcolor width height">>,
    <<"addAttrs", "form", "accept">>,
    <<"addAttrs", "td", "abbr axis scope align char charoff valign nowrap bgcolor width height">>,
    <<"addAttrs", "tfoot", "align char charoff valign">>,
    <<"addAttrs", "tbody", "align char charoff valign">>,
    <<"addAttrs", "area", "nohref">>,
    <<"addAttrs", "body", "background bgcolor text link vlink alink">>
  >>

\* "Extend with HTML5 attributes unless it's html4"
html5AttrStatements ==
  <<
    <<"addAttrs", "input button select textarea", "autofocus">>,
    <<"addAttrs", "input textarea", "placeholder">>,
    <<"addAttrs", "a", "download">>,
    <<"addAttrs", "link script img", "crossorigin">>,
    <<"addAttrs", "img", "loading">>,
    <<"addAttrs", "iframe", "sandbox seamless allowfullscreen loading">>
  >>

\* The statements compileSchema(type) runs for a type, in program order.
schemaStatements(type, phrasingContent, flowContent) ==
  (IF type # "html5-strict"
   THEN addEach(split(html4PhrasingContent, " "), phrasingContent)
        \o addEach(split(html4BlockContent, " "), flowContent)
   ELSE <<>>)
  \o baseStatements(type, phrasingContent, flowContent)
  \o (IF type # "html4" THEN html5Statements(phrasingContent, flowContent) ELSE <<>>)
  \o (IF type # "html5-strict" THEN html4AttrStatements ELSE <<>>)
  \o (IF type # "html4" THEN html5AttrStatements ELSE <<>>)

\* deleteSpecial that keeps the script element.
deleteSpecialKeepScript(schema) ==
  [n \in DOMAIN schema |->
     IF n = "caption" THEN [schema[n] EXCEPT !.children = @ \ {"table"}] ELSE schema[n]]

\* delete schema.caption.children.table; delete schema.script
deleteSpecial(schema) ==
  [n \in DOMAIN schema \ {"script"} |->
     IF n = "caption" THEN [schema[n] EXCEPT !.children = @ \ {"table"}] ELSE schema[n]]

\* The table compileSchema(type) builds when the cache slot is empty: element
\* name -> [attributes, attributesOrder, children].
buildSchema(type) ==
  deleteSpecial(
    deleteSelfChild(
      applyAll(<<>>, globalAttributesOf(type),
               schemaStatements(type, phrasingContentOf(type), flowContentOf(type))),
      split("a form meter progress dfn", " ")))

Html4Table == buildSchema("html4")
Html5Table == buildSchema("html5")
Html5StrictTable == buildSchema("html5-strict")
DefaultTable == buildSchema(Undefined)

(***************************************************************************)
(* Regular expressions of the rule grammar                                 *)
(***************************************************************************)

RECURSIVE ScanWhileNot(_, _, _)
\* The first position >= from whose character is one of stops; Len(s) + 1 when
\* there is none: the end of a greedy [^stops]* run starting at from.
ScanWhileNot(s, from, stops) ==
  IF from > Len(s) \/ Contains(stops, CharAt(s, from)) THEN from
  ELSE ScanWhileNot(s, from + 1, stops)

IsWordChar(c) ==
  Contains(LowerChars, c) \/ Contains(UpperChars, c) \/ Contains(DigitChars, c) \/ c = "_"

RECURSIVE ScanWord(_, _)
\* The end of a greedy \w* run starting at from.
ScanWord(s, from) ==
  IF from > Len(s) \/ ~IsWordChar(CharAt(s, from)) THEN from
  ELSE ScanWord(s, from + 1)

NoMatch == [ok |-> FALSE]

\* elementRuleRegExp after an optional prefix of the given length:
\*   ([^\[!\/]+)(?:\/([^\[!]+))?(?:(!?)\[([^\]]+)])?$
elementRuleFrom(s, prefix, start) ==
  LET e == ScanWhileNot(s, start, "[!/")
      hasOut == e <= Len(s) /\ CharAt(s, e) = "/"
      oe == IF hasOut THEN ScanWhileNot(s, e + 1, "[!") ELSE e
      pos == oe
      bang == pos <= Len(s) /\ CharAt(s, pos) = "!"
      q == IF bang THEN pos + 1 ELSE pos
      r == ScanWhileNot(s, q + 1, "]")
  IN IF e = start THEN NoMatch
     ELSE IF hasOut /\ oe = e + 1 THEN NoMatch
     ELSE IF pos > Len(s)
     THEN [ok |-> TRUE, prefix |-> prefix, elementName |-> SubSeq(s, start, e - 1),
           outputName |-> IF hasOut THEN SubSeq(s, e + 1, oe - 1) ELSE Undefined,
           bang |-> "", attrData |-> Undefined]
     ELSE IF q <= Len(s) /\ CharAt(s, q) = "[" /\ r > q + 1 /\ r = Len(s)
     THEN [ok |-> TRUE, prefix |-> prefix, elementName |-> SubSeq(s, start, e - 1),
           outputName |-> IF hasOut THEN SubSeq(s, e + 1, oe - 1) ELSE Undefined,
           bang |-> IF bang THEN "!" ELSE "", attrData |-> SubSeq(s, q + 1, r - 1)]
     ELSE NoMatch

\* elementRuleRegExp.exec(s):
\*   /^([#+\-])?([^\[!\/]+)(?:\/([^\[!]+))?(?:(!?)\[([^\]]+)])?$/
\* The prefix is taken when the rest then matches, and left to the name
\* otherwise.
elementRuleRegExp(s) ==
  LET withPrefix == IF s # "" /\ Contains("#+-", Head(s))
                    THEN elementRuleFrom(s, Head(s), 2)
                    ELSE NoMatch
  IN IF withPrefix.ok THEN withPrefix ELSE elementRuleFrom(s, Undefined, 1)

\* attrRuleRegExp.exec(s):
\*   /^([!\-])?(\w+[\\:]:\w+|[^=:<]+)?(?:([=:<])(.*))?$/
\* Every string matches; the name group is undefined when it matched nothing.
attrRuleRegExp(s) ==
  LET attrType == IF s # "" /\ Contains("!-", Head(s)) THEN Head(s) ELSE Undefined
      start == IF attrType = Undefined THEN 1 ELSE 2
      w1 == ScanWord(s, start)
      w2 == ScanWord(s, w1 + 2)
      escaped == /\ w1 > start
                 /\ w1 + 1 <= Len(s)
                 /\ Contains("\\:", CharAt(s, w1))
                 /\ CharAt(s, w1 + 1) = ":"
                 /\ w2 > w1 + 2
                 /\ (w2 > Len(s) \/ Contains("=:<", CharAt(s, w2)))
      e == IF escaped THEN w2 ELSE ScanWhileNot(s, start, "=:<")
  IN [attrType |-> attrType,
      attrName |-> IF e = start THEN Undefined ELSE SubSeq(s, start, e - 1),
      nameMatched |-> e # start,
      prefix |-> IF e <= Len(s) THEN CharAt(s, e) ELSE Undefined,
      value |-> IF e <= Len(s) THEN SubSeq(s, e + 1, Len(s)) ELSE Undefined]

RECURSIVE unescapeColon(_)
\* attrName.replace(/[\\:]:/g, ':')
unescapeColon(s) ==
  IF Len(s) < 2 THEN s
  ELSE IF Contains("\\:", Head(s)) /\ CharAt(s, 2) = ":"
  THEN ":" \o unescapeColon(SubSeq(s, 3, Len(s)))
  ELSE Head(s) \o unescapeColon(Tail(s))

\* hasPatternsRegExp.test(s): /[*?+]/
hasPatternsRegExp(s) == Contains(s, "*") \/ Contains(s, "?") \/ Contains(s, "+")

RECURSIVE dotWildcards(_)
\* str.replace(/([?+*])/g, '.$1')
dotWildcards(str) ==
  IF str = "" THEN ""
  ELSE IF Contains("?+*", Head(str)) THEN "." \o Head(str) \o dotWildcards(Tail(str))
  ELSE Head(str) \o dotWildcards(Tail(str))

\* patternToRegExp(str): the source of the regular expression built.
patternToRegExp(str) == "^" \o dotWildcards(str) \o "$"

RECURSIVE regExpMatch(_, _, _, _)
\* Whether the expression body re from position i on matches s from position j
\* to its end. The body is made of literal characters, '.', and a '.' followed
\* by one of the quantifiers '?', '+', '*' (what patternToRegExp produces).
regExpMatch(re, i, s, j) ==
  IF i > Len(re) THEN j > Len(s)
  ELSE LET atom == CharAt(re, i)
           quant == IF i < Len(re) /\ Contains("?+*", CharAt(re, i + 1))
                    THEN CharAt(re, i + 1) ELSE ""
           one == j <= Len(s) /\ (atom = "." \/ atom = CharAt(s, j))
       IN CASE quant = "" -> one /\ regExpMatch(re, i + 1, s, j + 1)
            [] quant = "?" -> \/ (one /\ regExpMatch(re, i + 2, s, j + 1))
                              \/ regExpMatch(re, i + 2, s, j)
            [] quant = "*" -> \/ (one /\ regExpMatch(re, i, s, j + 1))
                              \/ regExpMatch(re, i + 2, s, j)
            [] quant = "+" -> one /\ (\/ regExpMatch(re, i, s, j + 1)
                                      \/ regExpMatch(re, i + 2, s, j + 1))

\* RegExp.prototype.test for an expression '^' body '$' without flags.
regExpTest(source, s) ==
  regExpMatch(SubSeq(source, 2, Len(source) - 1), 1, s, 1)

(***************************************************************************)
(* Element rules and the valid_elements parser (addValidElements)          *)
(***************************************************************************)

\* An element rule; an optional list that was never created is <<>>, an
\* optional name that was never set is Undefined. bare marks the object
\* extend({}, undefined) yields: a rule without attributes or attributesOrder.
EmptyRule ==
  [attributes |-> <<>>, attributesOrder |-> <<>>, attributePatterns |-> <<>>,
   attributesRequired |-> <<>>, attributesDefault |-> <<>>, attributesForced |-> <<>>,
   paddEmpty |-> FALSE, removeEmpty |-> FALSE, removeEmptyAttrs |-> FALSE,
   outputName |-> Undefined, parentsRequired |-> <<>>, pattern |-> Undefined,
   bare |-> FALSE]

\* delete obj[key] on a mapping
deleteKey(obj, key) == [k \in DOMAIN obj \ {key} |-> obj[k]]

\* obj[key] = value on a mapping
setKey(obj, key, value) == (key :> value) @@ obj

\* Tools.makeMap(items, delim): the keys of the map built from a string.
makeMap(items, delim) == Range(StrSplit(items, delim))

\* The attr object of one token: only the fields the code sets on it.
attrObject(attrType, attrName, prefix, value, isPattern) ==
  (IF attrType = "!" THEN [required |-> TRUE] ELSE EmptyAttr)
  @@ (IF prefix = "=" THEN [defaultValue |-> value] ELSE EmptyAttr)
  @@ (IF prefix = ":" THEN [forcedValue |-> value] ELSE EmptyAttr)
  @@ (IF prefix = "<" THEN [validValues |-> makeMap(value, "?")] ELSE EmptyAttr)
  @@ (IF isPattern THEN [pattern |-> patternToRegExp(attrName)] ELSE EmptyAttr)

\* attributesRequired.push / attributesDefault.push / attributesForced.push
attrLists(element, attrType, attrName, prefix, value) ==
  [element EXCEPT
     !.attributesRequired = IF attrType = "!" THEN Append(@, attrName) ELSE @,
     !.attributesDefault =
        IF prefix = "=" THEN Append(@, [name |-> attrName, value |-> value]) ELSE @,
     !.attributesForced =
        IF prefix = ":" THEN Append(@, [name |-> attrName, value |-> value]) ELSE @]

\* attrDeny that takes the name out of attributesOrder only.
attrDenyOrder(element, attrName) ==
  [element EXCEPT !.attributesOrder = splice1(@, inArray(@, attrName))]

\* "Denied from global": delete attributes[attrName];
\* attributesOrder.splice(inArray(attributesOrder, attrName), 1)
attrDeny(element, attrName) ==
  [element EXCEPT !.attributes = deleteKey(@, attrName),
                  !.attributesOrder = splice1(@, inArray(@, attrName))]

\* "Check for attribute patterns": the attr object goes to attributePatterns,
\* or to the mapping (and to the order unless the name is already mapped).
attrStore(element, attrName, attr, isPattern) ==
  IF isPattern
  THEN [element EXCEPT !.attributePatterns = Append(@, attr)]
  ELSE [element EXCEPT
          !.attributes = setKey(@, attrName, attr),
          !.attributesOrder =
             IF attrName \in DOMAIN element.attributes THEN @ ELSE Append(@, attrName)]

attrApply(element, attrType, attrName, prefix, value, isPattern) ==
  IF attrType = "-"
  THEN attrDeny(element, attrName)
  ELSE attrStore(attrLists(element, attrType, attrName, prefix, value), attrName,
                 attrObject(attrType, attrName, prefix, value, isPattern), isPattern)

\* matches = attrRuleRegExp.exec(token); matches[2].replace(...) raises a
\* TypeError when the token has no attribute name.
attrMatched(element, matches, attrName) ==
  attrApply(element, matches.attrType, attrName, matches.prefix, matches.value,
            hasPatternsRegExp(attrName))

attrToken(element, matches) ==
  IF ~matches.nameMatched THEN [raised |-> TRUE, element |-> element]
  ELSE [raised |-> FALSE,
        element |-> attrMatched(element, matches, unescapeColon(matches.attrName))]

\* The body of the attribute loop of addValidElements for one token.
attrRule(element, token) == attrToken(element, attrRuleRegExp(token))

\* The element after a token, with a record of the token: the element's
\* attribute mapping and order before and after it.
attrStep(es, token, r) ==
  [element |-> r.element, raised |-> r.raised,
   tokens |-> Append(es.tokens,
                [token |-> token,
                 raised |-> r.raised,
                 before |-> [attributes |-> es.element.attributes,
                             attributesOrder |-> es.element.attributesOrder],
                 after |-> [attributes |-> r.element.attributes,
                            attributesOrder |-> r.element.attributesOrder]])]

RECURSIVE attrRules(_, _, _)
\* for (ai = 0; ai < al; ai++) over the tokens of an attribute block. es holds
\* the element, whether a token raised, and the records of the tokens.
attrRules(es, attrData, ai) ==
  IF ai > Len(attrData) \/ es.raised THEN es
  ELSE attrRules(attrStep(es, attrData[ai], attrRule(es.element, attrData[ai])),
                 attrData, ai + 1)

NoGlobal == [defined |-> FALSE, attributes |-> <<>>, attributesOrder |-> <<>>]

\* newElement without the copy from the global rule.
newElementOwn(g, matches) ==
  [EmptyRule EXCEPT
     !.paddEmpty = matches.prefix = "#",
     !.removeEmpty = matches.prefix = "-",
     !.removeEmptyAttrs = matches.bang = "!"]

\* element = { attributes, attributesOrder }, with the flags of the prefix and
\* "Copy attributes from global rule into current rule".
newElement(g, matches) ==
  [EmptyRule EXCEPT
     !.paddEmpty = matches.prefix = "#",
     !.removeEmpty = matches.prefix = "-",
     !.removeEmptyAttrs = matches.bang = "!",
     !.attributes = IF g.defined THEN g.attributes ELSE <<>>,
     !.attributesOrder = IF g.defined THEN g.attributesOrder ELSE <<>>]

\* attrData = split(attrData, '|') when the rule has an attribute block.
attrDataOf(matches) ==
  IF matches.attrData # Undefined /\ matches.attrData # ""
  THEN split(matches.attrData, "|") ELSE <<>>

\* The end of the rule loop body: global attributes, output name, pattern or
\* named element. The record of the rule goes to the log.
elementParsed(ps, rule, matches, element0, es) ==
  LET isGlobal == ~ps.globalAttributes.defined /\ matches.elementName = "@"
      hasOutput == matches.outputName # Undefined
      isPattern == hasPatternsRegExp(matches.elementName)
      element ==
        [es.element EXCEPT
           !.outputName = IF hasOutput THEN matches.elementName ELSE @,
           !.pattern = IF isPattern THEN patternToRegExp(matches.elementName) ELSE @]
      entry == [rule |-> rule,
                elementName |-> matches.elementName,
                outputName |-> matches.outputName,
                inherited |-> [attributes |-> element0.attributes,
                               attributesOrder |-> element0.attributesOrder],
                tokens |-> es.tokens,
                raised |-> es.raised,
                isGlobal |-> isGlobal,
                element |-> element]
  IN IF es.raised
     THEN [ps EXCEPT !.raised = TRUE, !.log = Append(@, entry)]
     ELSE [ps EXCEPT
             !.globalAttributes =
                IF isGlobal
                THEN [defined |-> TRUE, attributes |-> element.attributes,
                      attributesOrder |-> element.attributesOrder]
                ELSE @,
             !.elements =
                IF isPattern
                THEN (IF hasOutput THEN setKey(@, matches.outputName, element) ELSE @)
                ELSE setKey(IF hasOutput THEN setKey(@, matches.outputName, element) ELSE @,
                            matches.elementName, element),
             !.patternElements = IF isPattern THEN Append(@, element) ELSE @,
             !.log = Append(@, entry)]

elementMatched(ps, rule, matches, element0) ==
  elementParsed(ps, rule, matches, element0,
                attrRules([element |-> element0, raised |-> FALSE, tokens |-> <<>>],
                          attrDataOf(matches), 1))

elementStart(ps, rule, matches) ==
  IF ~matches.ok THEN ps
  ELSE elementMatched(ps, rule, matches, newElement(ps.globalAttributes, matches))

\* The body of the rule loop of addValidElements for one rule string. ps holds
\* the tables, the global attributes of this call, and a record per rule.
elementRule(ps, rule) == elementStart(ps, rule, elementRuleRegExp(rule))

RECURSIVE elementRules(_, _, _)
\* for (ei = 0; ei < el; ei++) over the rule strings.
elementRules(ps, validElementsArr, ei) ==
  IF ei > Len(validElementsArr) \/ ps.raised THEN ps
  ELSE elementRules(elementRule(ps, validElementsArr[ei]), validElementsArr, ei + 1)

\* if (value): a string option is used when it is neither undefined nor empty.
Truthy(value) == value # Undefined /\ value # ""

\* storedGlobal that never finds a stored '@' rule.
storedGlobalNone(elements) == NoGlobal

\* if (elements['@']): the global attributes a call starts with.
storedGlobal(elements) ==
  IF "@" \in DOMAIN elements /\ ~elements["@"].bare
  THEN [defined |-> TRUE,
        attributes |-> elements["@"].attributes,
        attributesOrder |-> elements["@"].attributesOrder]
  ELSE NoGlobal

\* The tables after the rule loop; the call is recorded in w.calls with its
\* argument, the global attributes it started with, and its rules.
addValidElementsEnd(w, validElements, globalAttributes, ps) ==
  [w EXCEPT !.elements = ps.elements,
            !.patternElements = ps.patternElements,
            !.raised = ps.raised,
            !.calls = Append(@, [validElements |-> validElements,
                                 globalAttributes |-> globalAttributes,
                                 log |-> ps.log])]

addValidElementsFrom(w, validElements, globalAttributes) ==
  addValidElementsEnd(w, validElements, globalAttributes,
    elementRules([elements |-> w.elements,
                  patternElements |-> w.patternElements,
                  globalAttributes |-> globalAttributes,
                  raised |-> FALSE,
                  log |-> <<>>],
                 split(validElements, ","), 1))

\* addValidElements(validElements)
addValidElements(w, validElements) ==
  IF ~Truthy(validElements) \/ w.raised THEN w
  ELSE addValidElementsFrom(w, validElements, storedGlobal(w.elements))

(***************************************************************************)
(* The process-wide cache, the heap of shared maps, and one Schema         *)
(* instance. A "world" w is a record of the instance's closure variables   *)
(* (settings, schemaItems, elements, patternElements, children,            *)
(* customElementsMap, blockElementsMap, textBlockElementsMap), the process *)
(* state (mapCache, heap, nextRef) and the outcome of the running call     *)
(* (raised, calls, result). A reference is a pair <<allocation number,     *)
(* name>>.                                                                 *)
(***************************************************************************)

LookupOptions == {"block_elements", "text_block_elements"}

NoRef == <<0, "">>

\* const mapCache = {}
EmptyMapCache ==
  [schema |-> [ty \in SchemaTypes |-> [cached |-> FALSE, children |-> <<>>]],
   lookup |-> [o \in LookupOptions |-> [cached |-> FALSE, ref |-> NoRef]]]

TableOf(type) ==
  CASE type = "html4" -> Html4Table
    [] type = "html5" -> Html5Table
    [] type = "html5-strict" -> Html5StrictTable
    [] OTHER -> DefaultTable

\* compileSchema(type): the cached table when the slot is set ("Use cached
\* schema"), otherwise a new table, every element with its own child map, stored
\* in the slot. schemaItems keeps the type (for the attributes, which are never
\* written after the build) and the reference of every element's child map.
compileTable(w, type, table, g) ==
  [w EXCEPT !.schemaItems = [type |-> type, children |-> [n \in DOMAIN table |-> <<g, n>>]],
            !.mapCache.schema[type] =
               [cached |-> TRUE, children |-> [n \in DOMAIN table |-> <<g, n>>]],
            !.heap = [r \in {<<g, n>> : n \in DOMAIN table} |-> table[r[2]].children] @@ @,
            !.nextRef = g + 1]

compileSchema(w, type) ==
  IF w.mapCache.schema[type].cached
  THEN [w EXCEPT !.schemaItems = [type |-> type,
                                  children |-> w.mapCache.schema[type].children]]
  ELSE compileTable(w, type, TableOf(type), w.nextRef)


RECURSIVE commasToSpaces(_)
commasToSpaces(s) ==
  IF Len(s) = 0 THEN ""
  ELSE IF Len(s) = 1 THEN (IF s = "," THEN " " ELSE s)
  ELSE LET h == Len(s) \div 2 IN
       commasToSpaces(SubSeq(s, 1, h)) \o commasToSpaces(SubSeq(s, h + 1, Len(s)))

\* createLookupTable(option, defaultValue, extendWith): the map of the option
\* when the settings give one, else the cached default map, built (and extended
\* with the map extendWith refers to) when the slot is empty. result is the
\* reference of the map returned.
createLookupTable(w, option, defaultValue, extendWith) ==
  LET value == w.settings[option]
      slot == w.mapCache.lookup[option]
      ref == <<w.nextRef, option>>
      custom == makeMap(commasToSpaces(value), " ")
                \cup makeMap(commasToSpaces(ToUpperCase(value)), " ")
      default == makeMap(defaultValue, " ") \cup makeMap(ToUpperCase(defaultValue), " ")
                 \cup (IF extendWith = NoRef THEN {} ELSE w.heap[extendWith])
  IN IF Truthy(value)
     THEN [w EXCEPT !.heap = (ref :> custom) @@ @, !.nextRef = @ + 1, !.result = ref]
     ELSE IF slot.cached
     THEN [w EXCEPT !.result = slot.ref]
     ELSE [w EXCEPT !.heap = (ref :> default) @@ @, !.nextRef = @ + 1, !.result = ref,
                    !.mapCache.lookup[option] = [cached |-> TRUE, ref |-> ref]]

\* each(schemaItems, (element, name) => children[name] = element.children),
\* not reached when the parse raised.
setValidElementsEnd(w, parsed) ==
  IF parsed.raised THEN parsed
  ELSE [parsed EXCEPT !.children = w.schemaItems.children @@ @]

\* setValidElements without elements = {}; patternElements = [].
setValidElementsKeep(w, validElements) ==
  IF w.raised THEN w
  ELSE setValidElementsEnd(w, addValidElements(w, validElements))

\* setValidElements(validElements)
setValidElements(w, validElements) ==
  IF w.raised THEN w
  ELSE setValidElementsEnd(w,
         addValidElements([w EXCEPT !.elements = <<>>, !.patternElements = <<>>],
                          validElements))

\* customPositions without the copies: no child map gets the new name.
customPositionsNone(w, name, cloneName, c1, h1, g, hit) ==
  [w EXCEPT !.children = c1, !.heap = h1]

\* "Add custom elements at span/div positions": every child map that has
\* cloneName is replaced by a copy that also has name.
customPositions(w, name, cloneName, c1, h1, g, hit) ==
  [w EXCEPT !.children = [elmName \in hit |-> <<g, elmName>>] @@ c1,
            !.heap = [r \in {<<g, elmName>> : elmName \in hit} |->
                        h1[c1[r[2]]] \cup {name}] @@ h1,
            !.nextRef = g + 1]

\* children[name] = children[cloneName] (the same map), the block element map
\* written in place, and the clone of the element rule.
customClone(w, name, cloneName, inline, c1, h1) ==
  customPositions(
    [w EXCEPT
       !.customElementsMap = setKey(@, name, cloneName),
       !.elements =
          IF name \in DOMAIN @ THEN @
          ELSE setKey(@, name,
                 \* customRule = extend({}, elements[cloneName]) without the two flags
                 IF cloneName \in DOMAIN @
                 THEN [@[cloneName] EXCEPT !.removeEmptyAttrs = FALSE, !.removeEmpty = FALSE]
                 ELSE [EmptyRule EXCEPT !.bare = TRUE])],
    name, cloneName, c1, h1, w.nextRef,
    {elmName \in DOMAIN c1 : cloneName \in h1[c1[elmName]]})

\* customNamed without children[name] = children[cloneName].
customNamedNoChildren(w, name, cloneName, inline) ==
  customClone(w, name, cloneName, inline, w.children,
    IF inline THEN w.heap
    ELSE [w.heap EXCEPT ![w.blockElementsMap] = @ \cup {ToUpperCase(name), name}])

customNamed(w, name, cloneName, inline) ==
  customClone(w, name, cloneName, inline,
    setKey(w.children, name, w.children[cloneName]),
    \* blockElementsMap[name.toUpperCase()] = {}; blockElementsMap[name] = {}
    IF inline THEN w.heap
    ELSE [w.heap EXCEPT ![w.blockElementsMap] = @ \cup {ToUpperCase(name), name}])

\* customElement with every name treated as a block element's.
customElementBlock(w, rule) ==
  IF rule = "" THEN [w EXCEPT !.raised = TRUE]
  ELSE IF Len(rule) > 1 /\ Head(rule) = "~"
  THEN customNamed(w, Tail(rule), "span", FALSE)
  ELSE customNamed(w, rule, "div", FALSE)

\* The body of addCustomElements' loop for one token: customElementRegExp is
\* /^(~)?(.+)$/, which only the empty token fails, and matches[1] of a failed
\* match raises a TypeError.
customElement(w, rule) ==
  IF rule = "" THEN [w EXCEPT !.raised = TRUE]
  ELSE IF Len(rule) > 1 /\ Head(rule) = "~"
  THEN customNamed(w, Tail(rule), "span", TRUE)
  ELSE customNamed(w, rule, "div", FALSE)

RECURSIVE customElements(_, _, _)
customElements(w, rules, k) ==
  IF k > Len(rules) \/ w.raised \/ ~Evaluated(w) THEN w
  ELSE customElements(customElement(w, rules[k]), rules, k + 1)

\* addCustomElements(customElements)
addCustomElements(w, custom) ==
  IF w.raised \/ ~Truthy(custom) THEN w
  ELSE customElements(
         \* Flush cached items since we are altering the default maps
         [w EXCEPT !.mapCache.lookup =
            [o \in LookupOptions |-> [cached |-> FALSE, ref |-> NoRef]]],
         split(custom, ","), 1)

IsChildNameChar(c) ==
  Contains(LowerChars, c) \/ Contains(UpperChars, c) \/ Contains(DigitChars, c)
  \/ Contains("_-.", c)

RECURSIVE ScanChildName(_, _)
ScanChildName(s, from) ==
  IF from > Len(s) \/ ~IsChildNameChar(CharAt(s, from)) THEN from
  ELSE ScanChildName(s, from + 1)

\* childRuleRegExp after a prefix: ([A-Za-z0-9_\-. ...]+)\[([^\]]+)]$ (of the
\* name's character class, the ASCII part).
childRuleFrom(s, prefix, start) ==
  LET e == ScanChildName(s, start)
      r == ScanWhileNot(s, e + 1, "]")
  IN IF e > start /\ e <= Len(s) /\ CharAt(s, e) = "[" /\ r > e + 1 /\ r = Len(s)
     THEN [ok |-> TRUE, prefix |-> prefix, name |-> SubSeq(s, start, e - 1),
           list |-> SubSeq(s, e + 1, r - 1)]
     ELSE NoMatch

\* childRuleRegExp.exec(s): /^([+\-]?)([A-Za-z0-9_\-. ...]+)\[([^\]]+)]$/
childRuleRegExp(s) ==
  LET withPrefix == IF s # "" /\ Contains("+-", Head(s))
                    THEN childRuleFrom(s, Head(s), 2)
                    ELSE NoMatch
  IN IF withPrefix.ok THEN withPrefix ELSE childRuleFrom(s, "", 1)

\* validChildMatched that writes a rule without prefix into the parent's map
\* as it does a '+' rule.
validChildMatchedAdd(w, prefix, name, list) ==
  IF name \notin DOMAIN w.children
  THEN (IF list = {} THEN w ELSE [w EXCEPT !.raised = TRUE])
  ELSE [w EXCEPT !.heap[w.children[name]] =
                    IF prefix = "-" THEN @ \ list ELSE @ \cup list]

\* The rule's children on the parent's map: with a prefix the map is written
\* in place, and a parent without a map makes parent[child] raise a TypeError
\* (unless the child list is empty); without one the parent gets a new map.
validChildMatched(w, prefix, name, list) ==
  IF prefix = ""
  THEN [w EXCEPT !.children = setKey(@, name, <<w.nextRef, name>>),
                 !.heap = (<<w.nextRef, name>> :> ({"#comment"} \cup list)) @@ @,
                 !.nextRef = @ + 1]
  ELSE IF name \notin DOMAIN w.children
  THEN (IF list = {} THEN w ELSE [w EXCEPT !.raised = TRUE])
  ELSE [w EXCEPT !.heap[w.children[name]] =
                    IF prefix = "-" THEN @ \ list ELSE @ \cup list]

validChildRule(w, matches) ==
  IF ~matches.ok THEN w
  ELSE validChildMatched(w, matches.prefix, matches.name,
                         Range(split(matches.list, "|")))

\* The body of addValidChildren's loop for one rule.
validChild(w, rule) == validChildRule(w, childRuleRegExp(rule))

RECURSIVE validChildren(_, _, _)
validChildren(w, rules, k) ==
  IF k > Len(rules) \/ w.raised \/ ~Evaluated(w) THEN w
  ELSE validChildren(validChild(w, rules[k]), rules, k + 1)

\* addValidChildren(validChildren)
addValidChildren(w, valid) ==
  LET \* Invalidate the schema cache if the schema is mutated
      w1 == [w EXCEPT !.mapCache.schema[w.settings.schema] =
                         [cached |-> FALSE, children |-> <<>>]]
  IN IF w.raised THEN w
     ELSE IF ~Truthy(valid) THEN w1
     ELSE validChildren(w1, split(valid, ","), 1)

(***************************************************************************)
(* Queries                                                                 *)
(***************************************************************************)

NoRule == [found |-> FALSE, rule |-> EmptyRule]

RECURSIVE firstPatternFrom(_, _, _)
firstPatternFrom(patternElements, name, i) ==
  IF i > Len(patternElements) THEN [found |-> FALSE, rule |-> EmptyRule]
  ELSE IF regExpTest(patternElements[i].pattern, name)
  THEN [found |-> TRUE, rule |-> patternElements[i]]
  ELSE firstPatternFrom(patternElements, name, i + 1)

\* lastPattern scanning in registration order, so that the earliest match wins.
firstPattern(patternElements, name, i) == firstPatternFrom(patternElements, name, 1)

RECURSIVE lastPattern(_, _, _)
\* i = patternElements.length; while (i--) if (pattern.test(name)) return
lastPattern(patternElements, name, i) ==
  IF i = 0 THEN NoRule
  ELSE IF regExpTest(patternElements[i].pattern, name)
  THEN [found |-> TRUE, rule |-> patternElements[i]]
  ELSE lastPattern(patternElements, name, i - 1)

\* getElementRule(name)
getElementRule(w, name) ==
  IF name \in DOMAIN w.elements
  THEN [found |-> TRUE, rule |-> w.elements[name]]
  ELSE lastPattern(w.patternElements, name, Len(w.patternElements))

RECURSIVE anyAttrPattern(_, _, _)
\* i = attrPatterns.length; while (i--) if (attrPatterns[i].pattern.test(name))
\* return true: the pattern is tested against the element name.
anyAttrPattern(attrPatterns, name, i) ==
  IF i = 0 THEN FALSE
  ELSE IF regExpTest(attrPatterns[i].pattern, name) THEN TRUE
  ELSE anyAttrPattern(attrPatterns, name, i - 1)

\* The body of isValid on the rule getElementRule returned.
isValidRule(r, name, attr) ==
  IF ~r.found THEN "false"
  ELSE IF ~Truthy(attr) THEN "true"
  ELSE IF r.rule.bare THEN "TypeError"
  ELSE IF attr \in DOMAIN r.rule.attributes THEN "true"
  ELSE IF anyAttrPattern(r.rule.attributePatterns, name, Len(r.rule.attributePatterns))
  THEN "true"
  ELSE "false"

\* isValid(name, attr): "true", "false", or "TypeError" when the rule has no
\* attributes object to look attr up in. attr = Undefined is the call without
\* the attribute.
isValidResult(w, name, attr) == isValidRule(getElementRule(w, name), name, attr)

isValid(w, name, attr) == isValidResult(w, name, attr) = "true"

\* isValidChild that looks the names up as written.
isValidChildExact(w, name, child) ==
  /\ name \in DOMAIN w.children
  /\ child \in w.heap[w.children[name]]

\* isValidChild(name, child)
isValidChild(w, name, child) ==
  /\ ToLowerCase(name) \in DOMAIN w.children
  /\ ToLowerCase(child) \in w.heap[w.children[ToLowerCase(name)]]

\* getBlockElements(): the keys of the map
getBlockElements(w) == w.heap[w.blockElementsMap]

(***************************************************************************)
(* The constructor                                                         *)
(***************************************************************************)

DefaultSettings ==
  [schema |-> Undefined, verify_html |-> TRUE, valid_elements |-> Undefined,
   custom_elements |-> Undefined, valid_children |-> Undefined,
   extended_valid_elements |-> Undefined, invalid_elements |-> Undefined,
   block_elements |-> Undefined, text_block_elements |-> Undefined]

TextBlockElementsDefault ==
  "h1 h2 h3 h4 h5 h6 p div address pre form " \o
  "blockquote center dir fieldset header footer article section hgroup aside main nav figure"

BlockElementsDefault ==
  "hr table tbody thead tfoot " \o
  "th tr td li ol ul caption dl dt dd noscript menu isindex option " \o
  "datalist select optgroup figcaption details summary"

\* "No valid elements defined then clone the elements from the schema spec"
defaultElementsOf(w, table, outputNames, removeEmpty, paddEmpty, removeEmptyAttrs) ==
  [w EXCEPT
     !.elements =
        [name \in DOMAIN table |->
           [EmptyRule EXCEPT
              !.attributes = table[name].attributes,
              !.attributesOrder = table[name].attributesOrder,
              !.outputName = IF name \in DOMAIN outputNames THEN outputNames[name] ELSE @,
              !.removeEmpty = name \in removeEmpty,
              !.paddEmpty = name \in paddEmpty,
              !.removeEmptyAttrs = name \in removeEmptyAttrs]],
     !.children = w.schemaItems.children @@ @]

defaultElements(w) ==
  defaultElementsOf(w, TableOf(w.schemaItems.type),
    \* "Switch these on HTML4"
    IF w.settings.schema # "html5" THEN [b |-> "strong", i |-> "em"] ELSE <<>>,
    \* "Remove these if they are empty by default"
    Range(split("ol ul sub sup blockquote span font a table tbody strong em b i", " ")),
    \* "Padd these by default"
    Range(split("p h1 h2 h3 h4 h5 h6 th td pre div address caption li", " ")),
    \* "Remove these if they have no attributes"
    Range(split("span", " ")))

\* "Some elements are not valid by themselves - require parents"
ParentsRequired ==
  [dd |-> "dl", dt |-> "dl", li |-> "ul ol", td |-> "tr", th |-> "tr",
   tr |-> "tbody thead tfoot", tbody |-> "table", thead |-> "table", tfoot |-> "table",
   legend |-> "fieldset", area |-> "map", param |-> "video audio object"]

parentsRequired(w) ==
  [w EXCEPT !.elements =
     [item \in DOMAIN ParentsRequired \cap DOMAIN @ |->
        [@[item] EXCEPT !.parentsRequired = split(ParentsRequired[item], " ")]] @@ @]

\* Tools.explode(s): s.split(',') with every item trimmed
explode(s) == LET items == StrSplit(s, ",") IN [k \in 1..Len(items) |-> Trim(items[k])]

\* deleteInvalid that deletes nothing.
deleteInvalidNone(w) == w

\* "Delete invalid elements"
deleteInvalid(w) ==
  IF ~Truthy(w.settings.invalid_elements) THEN w
  ELSE [w EXCEPT !.elements =
          [name \in DOMAIN @ \ Range(explode(w.settings.invalid_elements)) |-> @[name]]]

\* The instance before the constructor's first statement.
newInstance(process, settings) ==
  [settings |-> settings,
   schemaItems |-> [type |-> settings.schema, children |-> <<>>],
   elements |-> <<>>, patternElements |-> <<>>, children |-> <<>>,
   customElementsMap |-> <<>>,
   blockElementsMap |-> NoRef, textBlockElementsMap |-> NoRef,
   mapCache |-> process.mapCache, heap |-> process.heap,
   nextRef |-> process.nextRef,
   raised |-> FALSE, calls |-> <<>>, result |-> NoRef]

\* "Allow all elements and attributes if verify_html is set to false"
verifyHtml(w) ==
  IF w.settings.verify_html = FALSE
  THEN [w EXCEPT !.settings.valid_elements = "*[*]"]
  ELSE w

setTextBlockElementsMap(w) == [w EXCEPT !.textBlockElementsMap = w.result]

setBlockElementsMap(w) == [w EXCEPT !.blockElementsMap = w.result]

\* textBlockElementsMap = createLookupTable('text_block_elements', ...);
\* blockElementsMap = createLookupTable('block_elements', ..., textBlockElementsMap)
textBlockElements(w) ==
  setTextBlockElementsMap(
    createLookupTable(w, "text_block_elements", TextBlockElementsDefault, NoRef))

blockElements(w) ==
  setBlockElementsMap(
    createLookupTable(w, "block_elements", BlockElementsDefault, w.textBlockElementsMap))

\* if (!settings.valid_elements) { clone the schema } else { setValidElements }
validElements(w) ==
  IF ~Truthy(w.settings.valid_elements)
  THEN defaultElements(w)
  ELSE setValidElements(w, w.settings.valid_elements)

customElementsOption(w) == addCustomElements(w, w.settings.custom_elements)

validChildrenOption(w) == addValidChildren(w, w.settings.valid_children)

extendedValidElements(w) == addValidElements(w, w.settings.extended_valid_elements)

\* Todo: Remove this when we fix list handling to be valid
listChildren(w) == addValidChildren(w, "+ol[ul|ol],+ul[ul|ol]")

requiredAndInvalid(w) == IF w.raised THEN w ELSE deleteInvalid(parentsRequired(w))

\* If the user didn't allow span only allow internal spans
internalSpan(w) ==
  IF ~w.raised /\ ~getElementRule(w, "span").found
  THEN addValidElements(w, "span[!data-mce-type|*]")
  ELSE w

\* Schema(settings): the statements of the constructor in program order. A
\* step is skipped once an earlier one raised.
Schema(process, settings) ==
  internalSpan(requiredAndInvalid(listChildren(extendedValidElements(
    validChildrenOption(customElementsOption(validElements(blockElements(
      textBlockElements(verifyHtml(compileSchema(newInstance(process, settings),
                                                 settings.schema)))))))))))

(***************************************************************************)
(* The state machine: a process that constructs schema instances and calls *)
(* their mutators.                                                         *)
(***************************************************************************)

VARIABLES
  schemas,      \* instance id -> the closure variables of a constructed instance
  mapCache,     \* the process-wide cache
  heap,         \* reference -> the keys of a shared map object
  nextRef,      \* the next allocation number
  history,      \* the operations so far: op, inst, arg, raised, calls
  firstGlobal,  \* instance id -> the first '@' rule parsed since its tables were reset
  ops,          \* the number of mutator calls so far
  returned      \* instance id -> the object the 'elements' field of the returned
                \* object refers to: the table of the closure variable elements
                \* (live), or a table that variable no longer refers to

vars == <<schemas, mapCache, heap, nextRef, history, firstGlobal, ops, returned>>

\* The most mutator calls in a behaviour.
MaxOps == 2

Instances == {1}

SettingsChoices ==
  { [DefaultSettings EXCEPT !.schema = "html5"],
    [DefaultSettings EXCEPT !.valid_elements = "@[class],b,p" ],
    [DefaultSettings EXCEPT !.schema = "html5-strict", !.valid_elements = "a[href],d*[x]",
                            !.extended_valid_elements = "*v[y]"] }

ValidElementsStrings ==
  { "@[id],a[href]", "a[href],@[id]", "@[id],@[class],a", "p[-class]",
    "a[href|-class]", "a[data-*|y]", "d*[x],*v[y],b/strong", "@[class],a,p[-class],b" }

CustomElementsStrings == { "bogus", "~bogus", "Bogus", "~Inl" }

ValidChildrenStrings == { "+p[div]", "-div[p|div]", "ol[li]", "ol[Li]" }

\* The names and attributes the queries are asked about.
QueryNames ==
  { "a", "b", "p", "div", "span", "ol", "strong", "@", "script",
    "dv", "dx", "xv", "zz", "bogus", "Bogus", "Inl" }

QueryAttrs == { "href", "id", "class", "x", "y", "data-x" }

\* The world of an instance: its closure variables with the process state.
WorldOf(instance, cache, objects, next) ==
  [settings |-> instance.settings, schemaItems |-> instance.schemaItems,
   elements |-> instance.elements, patternElements |-> instance.patternElements,
   children |-> instance.children, customElementsMap |-> instance.customElementsMap,
   blockElementsMap |-> instance.blockElementsMap,
   textBlockElementsMap |-> instance.textBlockElementsMap,
   mapCache |-> cache, heap |-> objects, nextRef |-> next,
   raised |-> FALSE, calls |-> <<>>, result |-> NoRef]

\* The world of instance i in the current state.
World(i) == WorldOf(schemas[i], mapCache, heap, nextRef)

InstanceOf(w) ==
  [settings |-> w.settings, schemaItems |-> w.schemaItems,
   elements |-> w.elements, patternElements |-> w.patternElements,
   children |-> w.children, customElementsMap |-> w.customElementsMap,
   blockElementsMap |-> w.blockElementsMap,
   textBlockElementsMap |-> w.textBlockElementsMap]

\* The first '@' rule among the rules of one call, and among those of the
\* calls of one operation.
FirstGlobalIn(log) ==
  LET ks == {k \in 1..Len(log) : log[k].elementName = "@" /\ ~log[k].raised}
      k1 == CHOOSE k \in ks : \A j \in ks : k <= j
  IN IF ks = {} THEN NoGlobal
     ELSE [defined |-> TRUE, attributes |-> log[k1].element.attributes,
           attributesOrder |-> log[k1].element.attributesOrder]

FirstGlobalOf(calls) ==
  LET cs == {c \in 1..Len(calls) : FirstGlobalIn(calls[c].log).defined}
  IN IF cs = {} THEN NoGlobal
     ELSE FirstGlobalIn(calls[CHOOSE c \in cs : \A d \in cs : c <= d].log)

NoOperation == [op |-> "none", inst |-> 0, arg |-> "", raised |-> FALSE, calls |-> <<>>]

\* The operation that led to the current state.
Last == IF history = <<>> THEN NoOperation ELSE history[Len(history)]

Init ==
  /\ schemas = <<>>
  /\ mapCache = EmptyMapCache
  /\ heap = <<>>
  /\ nextRef = 1
  /\ history = <<>>
  /\ firstGlobal = <<>>
  /\ ops = 0
  /\ returned = <<>>

\* return { children, elements, ... }: the field refers to the object the
\* closure variable elements refers to when the constructor returns.
returnedObject == [live |-> TRUE, table |-> <<>>]

\* elements = {} in setValidElements: the closure variable gets a new object,
\* the field keeps the one it has, which no later call writes to.
detached(field, elements, reset) ==
  IF reset /\ field.live THEN [live |-> FALSE, table |-> elements] ELSE field

\* schema.elements: the table the field of instance i refers to.
elementsField(i) ==
  IF returned[i].live THEN schemas[i].elements ELSE returned[i].table

\* The process state a world leaves behind.
Leave(w) ==
  /\ mapCache' = w.mapCache
  /\ heap' = w.heap
  /\ nextRef' = w.nextRef

Record(op, i, arg, w) ==
  history' = Append(history, [op |-> op, inst |-> i, arg |-> arg, raised |-> w.raised,
                              calls |-> w.calls])

\* new Schema(settings): a constructor that raises yields no instance.
Constructed(i, w) ==
  /\ schemas' = IF w.raised THEN schemas ELSE (i :> InstanceOf(w)) @@ schemas
  /\ firstGlobal' = IF w.raised THEN firstGlobal
                    ELSE (i :> FirstGlobalOf(w.calls)) @@ firstGlobal
  /\ returned' = IF w.raised THEN returned ELSE (i :> returnedObject) @@ returned
  /\ Leave(w)
  /\ Record("Schema", i, "", w)
  /\ UNCHANGED ops

Construct(i, settings) ==
  /\ i \notin DOMAIN schemas
  /\ Constructed(i, Schema([mapCache |-> mapCache, heap |-> heap, nextRef |-> nextRef],
                           settings))

\* A mutator call on a constructed instance; reset says whether the call starts
\* from empty rule tables.
Mutate(i, op, arg, w, reset) ==
  /\ schemas' = [schemas EXCEPT ![i] = InstanceOf(w)]
  /\ firstGlobal' = [firstGlobal EXCEPT ![i] =
                       IF reset \/ ~@.defined THEN FirstGlobalOf(w.calls) ELSE @]
  /\ returned' = [returned EXCEPT ![i] = detached(@, schemas[i].elements, reset)]
  /\ Leave(w)
  /\ Record(op, i, arg, w)
  /\ ops' = ops + 1

AddValidElements(i, arg) ==
  /\ i \in DOMAIN schemas /\ ops < MaxOps
  /\ Mutate(i, "addValidElements", arg, addValidElements(World(i), arg), FALSE)

SetValidElements(i, arg) ==
  /\ i \in DOMAIN schemas /\ ops < MaxOps
  /\ Mutate(i, "setValidElements", arg, setValidElements(World(i), arg), TRUE)

AddCustomElements(i, arg) ==
  /\ i \in DOMAIN schemas /\ ops < MaxOps
  /\ Mutate(i, "addCustomElements", arg, addCustomElements(World(i), arg), FALSE)

AddValidChildren(i, arg) ==
  /\ i \in DOMAIN schemas /\ ops < MaxOps
  /\ Mutate(i, "addValidChildren", arg, addValidChildren(World(i), arg), FALSE)

Next ==
  \/ \E i \in Instances, settings \in SettingsChoices : Construct(i, settings)
  \/ \E i \in Instances, arg \in ValidElementsStrings : AddValidElements(i, arg)
  \/ \E i \in Instances, arg \in ValidElementsStrings : SetValidElements(i, arg)
  \/ \E i \in Instances, arg \in CustomElementsStrings : AddCustomElements(i, arg)
  \/ \E i \in Instances, arg \in ValidChildrenStrings : AddValidChildren(i, arg)

Spec == Init /\ [][Next]_vars

(***************************************************************************)
(* Properties                                                              *)
(***************************************************************************)

\* The wildcard rules one call registered, in the order of its rule strings.
PatternsOf(log) ==
  LET RECURSIVE from(_)
      from(k) == IF k > Len(log) THEN <<>>
                 ELSE IF ~log[k].raised /\ hasPatternsRegExp(log[k].elementName)
                 THEN <<log[k].element>> \o from(k + 1)
                 ELSE from(k + 1)
  IN from(1)

IsSuffix(s, seq) ==
  Len(s) <= Len(seq) /\ SubSeq(seq, Len(seq) - Len(s) + 1, Len(seq)) = s

\* The positions of the wildcard rules whose pattern matches the whole name.
Matching(patternElements, name) ==
  {k \in 1..Len(patternElements) : regExpTest(patternElements[k].pattern, name)}

\* C1: getElementRule(name) returns the rule stored under the exact name when
\* there is one; otherwise the matching wildcard rule that was registered last
\* (wildcard rules are kept in registration order: a call appends its own, in
\* the order of its rule strings); otherwise it returns nothing.
C1_GetElementRule ==
  \A i \in DOMAIN schemas :
    /\ \A name \in QueryNames :
         LET r == getElementRule(World(i), name)
             ks == Matching(schemas[i].patternElements, name)
         IN IF name \in DOMAIN schemas[i].elements
            THEN r.found /\ r.rule = schemas[i].elements[name]
            ELSE IF ks # {}
            THEN /\ r.found
                 /\ r.rule = schemas[i].patternElements[CHOOSE k \in ks : \A j \in ks : j <= k]
            ELSE ~r.found
    /\ (Last.inst = i /\ Last.op = "addValidElements")
         => IsSuffix(PatternsOf(Last.calls[1].log), schemas[i].patternElements)

\* Two wildcard rules match "dv", no exact rule does, and the answer is the
\* rule registered last, which differs from the one registered first.
C1_Witness ==
  \E i \in DOMAIN schemas :
    LET ks == Matching(schemas[i].patternElements, "dv")
    IN /\ "dv" \notin DOMAIN schemas[i].elements
       /\ Cardinality(ks) = 2
       /\ schemas[i].patternElements[1] # schemas[i].patternElements[2]
       /\ getElementRule(World(i), "dv").found
       /\ getElementRule(World(i), "dv").rule.pattern = "^.*v$"

\* C2: for every element name whose rule resolves and every attribute name
\* attr, isValid(name, attr) is true exactly when attr is a key of the rule's
\* attribute mapping or the matcher of one of the rule's attributePatterns
\* accepts attr; after 'a[data-*|y]', isValid('a', 'data-x') is true and
\* isValid('a', 'href') is false.
C2_IsValidAttr ==
  \A i \in DOMAIN schemas :
    /\ \A name \in QueryNames, attr \in QueryAttrs :
         LET r == getElementRule(World(i), name)
         IN (r.found /\ ~r.rule.bare)
              => (isValid(World(i), name, attr)
                    <=> \/ attr \in DOMAIN r.rule.attributes
                        \/ \E k \in 1..Len(r.rule.attributePatterns) :
                             regExpTest(r.rule.attributePatterns[k].pattern, attr))
    /\ (Last.inst = i /\ Last.arg = "a[data-*|y]" /\ ~Last.raised)
         => /\ isValid(World(i), "a", "data-x")
            /\ ~isValid(World(i), "a", "href")

\* The attribute mapping and order of a rule.
AttributesOf(element) ==
  [attributes |-> element.attributes, attributesOrder |-> element.attributesOrder]

NoAttributes == [attributes |-> <<>>, attributesOrder |-> <<>>]

\* The positions of the '@' rules in the rules of one call.
GlobalRules(log) == {k \in 1..Len(log) : log[k].elementName = "@" /\ ~log[k].raised}

\* C3: in one addValidElements/setValidElements call that starts on an
\* instance without an '@' rule, a rule listed after the (first) '@' rule
\* starts from exactly the '@' rule's attribute mapping and attributesOrder,
\* and a rule listed before it (and the '@' rule itself) starts from none;
\* '@[id],a[href]' gives a the attribute id, 'a[href],@[id]' does not.
C3_GlobalWithinCall ==
  \A h \in 1..Len(history) : \A c \in 1..Len(history[h].calls) :
    LET call == history[h].calls[c]
        gs == GlobalRules(call.log)
    IN ~call.globalAttributes.defined =>
         /\ \A k \in 1..Len(call.log) :
              call.log[k].inherited =
                IF \E g \in gs : g < k
                THEN AttributesOf(call.log[CHOOSE g \in gs : \A j \in gs : g <= j].element)
                ELSE NoAttributes
         /\ call.validElements = "@[id],a[href]" =>
              /\ DOMAIN call.log[2].element.attributes = {"id", "href"}
              /\ call.log[2].element.attributesOrder = <<"id", "href">>
         /\ call.validElements = "a[href],@[id]" =>
              /\ DOMAIN call.log[1].element.attributes = {"href"}
              /\ call.log[1].element.attributesOrder = <<"href">>

\* '@[id],a[href]' was parsed on an instance without an '@' rule and the rule
\* for a has id before href; 'a[href],@[id]' was parsed and its a has no id.
C3_Witness ==
  \E i \in DOMAIN schemas :
    /\ Len(history) = 3
    /\ history[2].op = "setValidElements" /\ history[2].arg = "a[href],@[id]"
    /\ "id" \notin DOMAIN history[2].calls[1].log[1].element.attributes
    /\ Last.op = "setValidElements" /\ Last.arg = "@[id],a[href]"
    /\ ~Last.calls[1].globalAttributes.defined
    /\ schemas[i].elements["a"].attributesOrder = <<"id", "href">>

\* The first '@' rule parsed on the instance when rule k of a call is reached:
\* the one recorded before the call, or else the first among the rules before k.
FirstGlobalAt(before, log, k) ==
  IF before.defined THEN AttributesOf(before)
  ELSE IF \E g \in GlobalRules(log) : g < k
  THEN AttributesOf(log[CHOOSE g \in GlobalRules(log) : \A j \in GlobalRules(log) : g <= j].element)
  ELSE NoAttributes

\* C4: the global attribute set of an instance is fixed by the first '@' rule
\* parsed on it (since construction or the last setValidElements): every rule
\* parsed after it, in the same call or in a later addValidElements call,
\* starts from exactly the attributes of that first '@' rule, whatever '@'
\* rules were parsed in between.
C4_FirstGlobalFixed ==
  [][\A i \in DOMAIN schemas :
       (Len(history') = Len(history) + 1 /\ Last'.inst = i /\ Last'.calls # <<>>
        /\ Last'.op \in {"addValidElements", "setValidElements"})
       => \A k \in 1..Len(Last'.calls[1].log) :
            Last'.calls[1].log[k].inherited =
              FirstGlobalAt(IF Last'.op = "setValidElements" THEN NoGlobal ELSE firstGlobal[i],
                            Last'.calls[1].log, k)]_vars

\* C4 as amended: within one call the global attribute set is fixed when the
\* call starts: it is the attribute set of the '@' rule stored on the instance
\* at that moment or, when none is stored (always so for setValidElements), of
\* the first '@' rule parsed in the call. An '@' rule parsed in the call is
\* stored in place of the previous one, so a later addValidElements call hands
\* out the attributes of the '@' rule stored last.
C4_StoredGlobalPerCall ==
  [][\A i \in DOMAIN schemas :
       (Len(history') = Len(history) + 1 /\ Last'.inst = i /\ Last'.calls # <<>>
        /\ Last'.op \in {"addValidElements", "setValidElements"})
       => LET log == Last'.calls[1].log
              stored == /\ Last'.op = "addValidElements"
                        /\ "@" \in DOMAIN schemas[i].elements
                        /\ ~schemas[i].elements["@"].bare
              gs == GlobalRules(log)
          IN /\ \A k \in 1..Len(log) :
                  log[k].inherited =
                    IF stored THEN AttributesOf(schemas[i].elements["@"])
                    ELSE FirstGlobalAt(NoGlobal, log, k)
             /\ (gs # {} /\ "@" \notin {log[k].outputName : k \in 1..Len(log)})
                  => schemas'[i].elements["@"]
                       = log[CHOOSE g \in gs : \A j \in gs : j <= g].element]_vars

\* A call started with a stored '@' rule whose attributes differ from those of
\* the first '@' rule parsed on the instance, and its rule inherited the
\* stored ones.
C4_Witness ==
  \E i \in DOMAIN schemas :
    /\ Last.inst = i /\ Last.op = "addValidElements" /\ ~Last.raised
    /\ Len(history) >= 2
    /\ history[Len(history) - 1].op \in {"addValidElements", "Schema", "setValidElements"}
    /\ firstGlobal[i].defined
    /\ Last.calls[1].globalAttributes.defined
    /\ AttributesOf(Last.calls[1].globalAttributes) # AttributesOf(firstGlobal[i])
    /\ Last.calls[1].log[1].inherited = AttributesOf(Last.calls[1].globalAttributes)

\* C5: a denial token '-attr' is a no-op when attr is not in the rule's
\* attribute mapping: the mapping and attributesOrder are as before the token;
\* for 'a[href|-class]' without global attributes, a keeps href in both.
C5_DenyAbsentNoOp ==
  \A h \in 1..Len(history) : \A c \in 1..Len(history[h].calls) :
    LET call == history[h].calls[c]
    IN /\ \A k \in 1..Len(call.log) : \A n \in 1..Len(call.log[k].tokens) :
            LET tok == call.log[k].tokens[n]
                m == attrRuleRegExp(tok.token)
            IN (m.nameMatched /\ m.attrType = "-"
                /\ unescapeColon(m.attrName) \notin DOMAIN tok.before.attributes)
                 => tok.after = tok.before
       /\ (call.validElements = "a[href|-class]" /\ ~call.globalAttributes.defined)
            => /\ "href" \in DOMAIN call.log[1].element.attributes
               /\ call.log[1].element.attributesOrder = <<"href">>

HasAttr(element, attr) ==
  attr \in DOMAIN element.attributes /\ attr \in Range(element.attributesOrder)

LacksAttr(element, attr) ==
  attr \notin DOMAIN element.attributes /\ attr \notin Range(element.attributesOrder)

\* Rule k of a call starts with class from the global rule and denies it.
DeniesClass(log, k) ==
  /\ log[k].elementName # "@"
  /\ "class" \in DOMAIN log[k].inherited.attributes
  /\ \E n \in 1..Len(log[k].tokens) : log[k].tokens[n].token = "-class"

\* Rule k of a call has a denial token.
DeniesAny(log, k) ==
  \E n \in 1..Len(log[k].tokens) : Head(log[k].tokens[n].token) = "-"

\* The names a call stored rules under.
NamesOf(log) ==
  {log[k].elementName : k \in 1..Len(log)} \cup {log[k].outputName : k \in 1..Len(log)}

\* C6: when a global '@' rule with class exists, a rule with the token
\* '-class' (such as 'p[-class]') ends without class in its attribute mapping
\* and attributesOrder, and nothing else loses it: the stored '@' rule still
\* has class, the rules of earlier calls are unchanged, and every other rule
\* of the call that started with class (before or after the denying rule)
\* still has it.
C6_DenyOnlyThatRule ==
  [][\A i \in DOMAIN schemas :
       (Len(history') = Len(history) + 1 /\ Last'.inst = i /\ Last'.calls # <<>>
        /\ Last'.op \in {"addValidElements", "setValidElements"} /\ ~Last'.raised)
       => LET log == Last'.calls[1].log
          IN \A k \in 1..Len(log) :
               DeniesClass(log, k) =>
                 /\ LacksAttr(log[k].element, "class")
                 /\ (\A j \in k+1..Len(log) : log[j].elementName # log[k].elementName)
                      => schemas'[i].elements[log[k].elementName] = log[k].element
                 /\ "@" \in DOMAIN schemas'[i].elements
                 /\ HasAttr(schemas'[i].elements["@"], "class")
                 /\ Last'.op = "addValidElements" =>
                      \A m \in DOMAIN schemas[i].elements \ NamesOf(log) :
                        /\ m \in DOMAIN schemas'[i].elements
                        /\ schemas'[i].elements[m] = schemas[i].elements[m]
                 /\ \A j \in 1..Len(log) :
                      (j # k /\ "class" \in DOMAIN log[j].inherited.attributes
                       /\ ~DeniesAny(log, j))
                        => HasAttr(log[j].element, "class")]_vars

\* 'p[-class]' was parsed on an instance whose '@' rule has class: p is
\* without class while '@' and the earlier rule for b still have it.
C6_Witness ==
  \E i \in DOMAIN schemas :
    /\ Last.op = "addValidElements" /\ Last.arg = "p[-class]" /\ Last.inst = i
    /\ DeniesClass(Last.calls[1].log, 1)
    /\ LacksAttr(schemas[i].elements["p"], "class")
    /\ HasAttr(schemas[i].elements["@"], "class")
    /\ HasAttr(schemas[i].elements["b"], "class")

\* '@[class],a,p[-class],b' was parsed in one call: of the rules after '@',
\* only p is without class.
C6_WitnessOneCall ==
  \E i \in DOMAIN schemas :
    /\ Last.arg = "@[class],a,p[-class],b" /\ Last.inst = i
    /\ DeniesClass(Last.calls[1].log, 3)
    /\ LacksAttr(schemas[i].elements["p"], "class")
    /\ HasAttr(schemas[i].elements["a"], "class")
    /\ HasAttr(schemas[i].elements["b"], "class")

\* The rule tables that the rule strings s give when parsed into empty tables
\* with no global attributes.
ParsedAlone(s) ==
  addValidElementsFrom([elements |-> <<>>, patternElements |-> <<>>,
                        raised |-> FALSE, calls |-> <<>>], s, NoGlobal)

\* The instance's rule tables are the given ones, and the queries answer from
\* them.
AnswersFrom(i, tables) ==
  /\ schemas[i].elements = tables.elements
  /\ schemas[i].patternElements = tables.patternElements
  /\ \A name \in QueryNames :
       /\ getElementRule(World(i), name) = getElementRule(tables, name)
       /\ \A attr \in QueryAttrs \cup {Undefined} :
            isValidResult(World(i), name, attr) = isValidResult(tables, name, attr)

C8_ChildrenReseeded ==
  \A i \in DOMAIN schemas :
    (Last.inst = i /\ Last.op = "setValidElements" /\ ~Last.raised)
      => /\ \A parent \in DOMAIN TableOf(schemas[i].schemaItems.type) :
              /\ parent \in DOMAIN schemas[i].children
              /\ heap[schemas[i].children[parent]]
                   = TableOf(schemas[i].schemaItems.type)[parent].children
         /\ ~isValidChild(World(i), "ol", "ul")

\* The world of instance i after the step.
WorldAfter(i) == WorldOf(schemas'[i], mapCache', heap', nextRef')

\* The step is a call of op on instance i.
Called(i, op) ==
  Len(history') = Len(history) + 1 /\ Last'.inst = i /\ Last'.op = op

\* C9: on a schema constructed with the html5 defaults, for a name n without
\* a rule, addCustomElements(n) makes isValid(n) true, puts n into
\* getBlockElements(), and makes n a valid child of every parent that div is a
\* valid child of (of div in particular).
C9_BlockCustomElement ==
  [][\A i \in DOMAIN schemas :
       (/\ Called(i, "addCustomElements")
        /\ ops = 0
        /\ schemas[i].settings = [DefaultSettings EXCEPT !.schema = "html5"]
        /\ Head(Last'.arg) # "~"
        /\ ~isValid(World(i), Last'.arg, Undefined))
       => /\ isValid(WorldAfter(i), Last'.arg, Undefined)
          /\ Last'.arg \in getBlockElements(WorldAfter(i))
          /\ isValidChild(WorldAfter(i), "div", Last'.arg)
          /\ \A parent \in DOMAIN schemas'[i].children :
               isValidChild(WorldAfter(i), parent, "div")
                 => isValidChild(WorldAfter(i), parent, Last'.arg)]_vars

\* C10: addCustomElements('~n') makes n an inline element cloned from span:
\* afterwards n is a valid child of p and of every parent that span is a valid
\* child of, and n is not in getBlockElements().
C10_InlineCustomElement ==
  [][\A i \in DOMAIN schemas :
       (/\ Called(i, "addCustomElements")
        /\ Len(Last'.arg) > 1 /\ Head(Last'.arg) = "~"
        /\ isValidChild(World(i), "p", "span")
        /\ Tail(Last'.arg) \notin getBlockElements(World(i)))
       => /\ isValidChild(WorldAfter(i), "p", Tail(Last'.arg))
          /\ \A parent \in DOMAIN schemas'[i].children :
               isValidChild(WorldAfter(i), parent, "span")
                 => isValidChild(WorldAfter(i), parent, Tail(Last'.arg))
          /\ Tail(Last'.arg) \notin getBlockElements(WorldAfter(i))]_vars

\* A name without upper-case letters.
IsLowerCase(name) == ToLowerCase(name) = name

\* C9 as amended: the same for a name n without upper-case letters
\* (isValidChild looks the child up in lower case, addCustomElements stores the
\* name as written).
C9_LowerCaseBlockCustomElement ==
  [][\A i \in DOMAIN schemas :
       (/\ Called(i, "addCustomElements")
        /\ ops = 0
        /\ schemas[i].settings = [DefaultSettings EXCEPT !.schema = "html5"]
        /\ Head(Last'.arg) # "~"
        /\ IsLowerCase(Last'.arg)
        /\ ~isValid(World(i), Last'.arg, Undefined))
       => /\ isValid(WorldAfter(i), Last'.arg, Undefined)
          /\ Last'.arg \in getBlockElements(WorldAfter(i))
          /\ isValidChild(WorldAfter(i), "div", Last'.arg)
          /\ \A parent \in DOMAIN schemas'[i].children :
               isValidChild(WorldAfter(i), parent, "div")
                 => isValidChild(WorldAfter(i), parent, Last'.arg)]_vars

\* addCustomElements('bogus') on the html5 default schema: bogus is valid, a
\* block element, and a valid child of div and of body, but not of p.
C9_Witness ==
  \E i \in DOMAIN schemas :
    /\ Len(history) = 2 /\ Last.op = "addCustomElements" /\ Last.arg = "bogus"
    /\ schemas[i].settings = [DefaultSettings EXCEPT !.schema = "html5"]
    /\ isValid(World(i), "bogus", Undefined)
    /\ "bogus" \in getBlockElements(World(i))
    /\ isValidChild(World(i), "div", "bogus")
    /\ isValidChild(World(i), "body", "div") /\ isValidChild(World(i), "body", "bogus")
    /\ ~isValidChild(World(i), "p", "bogus")

\* C10 as amended: addCustomElements('~n'), for a name n without upper-case
\* letters, makes n a valid child of every parent that span is a valid child
\* of (of p, when p allows span), and does not add n to getBlockElements(): n
\* is a member afterwards only if it was one before.
C10_LowerCaseInlineCustomElement ==
  [][\A i \in DOMAIN schemas :
       (/\ Called(i, "addCustomElements")
        /\ Len(Last'.arg) > 1 /\ Head(Last'.arg) = "~"
        /\ IsLowerCase(Tail(Last'.arg)))
       => /\ isValidChild(World(i), "p", "span")
               => isValidChild(WorldAfter(i), "p", Tail(Last'.arg))
          /\ \A parent \in DOMAIN schemas'[i].children :
               isValidChild(WorldAfter(i), parent, "span")
                 => isValidChild(WorldAfter(i), parent, Tail(Last'.arg))
          /\ Tail(Last'.arg) \in getBlockElements(WorldAfter(i))
               => Tail(Last'.arg) \in getBlockElements(World(i))]_vars

\* addCustomElements('~bogus') on an instance without bogus: bogus is a valid
\* child of p and is not a block element.
C10_Witness ==
  \E i \in DOMAIN schemas :
    /\ Len(history) = 2 /\ Last.op = "addCustomElements" /\ Last.arg = "~bogus"
    /\ isValidChild(World(i), "p", "span")
    /\ isValidChild(World(i), "p", "bogus")
    /\ "bogus" \notin getBlockElements(World(i))
    /\ schemas[i].customElementsMap["bogus"] = "span"

(***************************************************************************)
(* Malformed tokens: the same process with rule strings that fail the      *)
(* grammars, and with settings that leave div without an element rule.     *)
(***************************************************************************)

MalformedSettings ==
  { [DefaultSettings EXCEPT !.schema = "html5"],
    [DefaultSettings EXCEPT !.valid_elements = "a[href]"],
    [DefaultSettings EXCEPT !.schema = "html4", !.valid_elements = "a[href],b",
                            !.custom_elements = "~inl"] }

MalformedValidElements ==
  { "a[href|=x],b", "a[!],b", "a[href||id],b", "[x],b", "a[href|!id],b/strong" }

MalformedCustomElements == { "bogus", "~bogus" }

MalformedValidChildren ==
  { "+foo[p]", "-foo[p]", "foo[p]", "+p[div|foo]", "-p[span|b]", "p[", "+p[]" }

NextMalformed ==
  \/ \E i \in Instances, settings \in MalformedSettings : Construct(i, settings)
  \/ \E i \in Instances, arg \in MalformedValidElements : AddValidElements(i, arg)
  \/ \E i \in Instances, arg \in MalformedValidElements : SetValidElements(i, arg)
  \/ \E i \in Instances, arg \in MalformedCustomElements : AddCustomElements(i, arg)
  \/ \E i \in Instances, arg \in MalformedValidChildren : AddValidChildren(i, arg)

SpecMalformed == Init /\ [][NextMalformed]_vars

\* The names the rule strings of a batch store a rule under: the element name
\* of every rule that matches the grammar and is no wildcard, and its output
\* name.
StoredNames(batch) ==
  LET rules == split(batch, ",")
      ms == [k \in 1..Len(rules) |-> elementRuleRegExp(rules[k])]
  IN {ms[k].elementName :
        k \in {j \in 1..Len(rules) : ms[j].ok /\ ~hasPatternsRegExp(ms[j].elementName)}}
     \cup {ms[k].outputName :
             k \in {j \in 1..Len(rules) : ms[j].ok /\ ms[j].outputName # Undefined}}

\* C11: addValidElements (and setValidElements, which runs it) raises no error
\* for any rule string: an attribute token without a name ('=x', '!', the empty
\* token between two '|') or an element rule that fails the grammar is skipped,
\* and every rule of the batch that matches the grammar is stored.
C11_AddValidElementsNeverRaises ==
  (Last.op \in {"addValidElements", "setValidElements"})
    => /\ ~Last.raised
       /\ StoredNames(Last.arg) \subseteq DOMAIN schemas[Last.inst].elements

\* The keys of the child map of parent; none when parent has no map.
ChildrenOf(w, parent) ==
  IF parent \in DOMAIN w.children THEN w.heap[w.children[parent]] ELSE {}

\* C12: on every constructed instance, after any sequence of mutator calls,
\* isValid(name), isValid(name, attr), getElementRule(name) and
\* isValidChild(parent, child) return a result without raising, also for a
\* custom element registered while div or span has no element rule.
C12_QueriesNeverRaise ==
  \A i \in DOMAIN schemas :
    \A name \in QueryNames :
      /\ getElementRule(World(i), name).found \in BOOLEAN
      /\ \A attr \in QueryAttrs \cup {Undefined} :
           isValidResult(World(i), name, attr) \in {"true", "false"}
      /\ \A child \in QueryNames : isValidChild(World(i), name, child) \in BOOLEAN

\* The effect a call with one rule has on the child set of the rule's parent:
\* none when the rule fails the grammar, the listed children added with '+'
\* and removed with '-'.
ChildRuleEffect(before, after, matches) ==
  IF ~matches.ok THEN after.children = before.children /\ after.heap = before.heap
  ELSE IF matches.prefix = "+"
  THEN ChildrenOf(after, matches.name)
         = ChildrenOf(before, matches.name) \cup Range(split(matches.list, "|"))
  ELSE IF matches.prefix = "-"
  THEN ChildrenOf(after, matches.name)
         = ChildrenOf(before, matches.name) \ Range(split(matches.list, "|"))
  ELSE TRUE

\* C13: addValidChildren raises no error for any string and any parent name,
\* with or without a child set of that parent: a rule that fails the grammar
\* leaves the children graph as it was, a '+' or '-' rule adds or removes the
\* listed children in the parent's set.
C13_AddValidChildrenNeverRaises ==
  [][\A i \in DOMAIN schemas :
       Called(i, "addValidChildren")
         => /\ ~Last'.raised
            /\ ChildRuleEffect(World(i), WorldAfter(i), childRuleRegExp(Last'.arg))]_vars

(***************************************************************************)
(* Properties of the children graph                                        *)
(***************************************************************************)

\* The children the child queries are asked about.
ChildQueryNames == QueryNames \cup {"li", "Li", "ul", "#comment"}

LowerCased(names) == {ToLowerCase(n) : n \in names}

\* The step is addValidChildren on instance i with the one rule matches, which
\* has no prefix.
ReplacesChildren(i, matches) ==
  /\ Called(i, "addValidChildren") /\ ~Last'.raised
  /\ Len(split(Last'.arg, ",")) = 1
  /\ matches.ok /\ matches.prefix = ""

\* After the step the parent allows every listed child and '#comment', and
\* no child that is not listed.
ChildrenReplaced(after, name, list) ==
  /\ \A c \in list \cup {"#comment"} : isValidChild(after, name, c)
  /\ \A c \in ChildQueryNames :
       ToLowerCase(c) \notin LowerCased(list \cup {"#comment"})
         => ~isValidChild(after, name, c)

\* C14: a rule without prefix, 'p[c1|...|cn]', replaces the child set of p:
\* afterwards isValidChild(p, c) holds for c1..cn and '#comment' and for no
\* other child, whatever p allowed before.
C14_ChildrenReplaced ==
  [][\A i \in DOMAIN schemas :
       ReplacesChildren(i, childRuleRegExp(Last'.arg))
         => ChildrenReplaced(WorldAfter(i), childRuleRegExp(Last'.arg).name,
                             Range(split(childRuleRegExp(Last'.arg).list, "|")))]_vars

\* C14 as amended: the same for a parent and children written without
\* upper-case letters (isValidChild looks both names up in lower case,
\* addValidChildren stores them as written).
C14_LowerCaseChildrenReplaced ==
  [][\A i \in DOMAIN schemas :
       (/\ ReplacesChildren(i, childRuleRegExp(Last'.arg))
        /\ IsLowerCase(Last'.arg))
         => ChildrenReplaced(WorldAfter(i), childRuleRegExp(Last'.arg).name,
                             Range(split(childRuleRegExp(Last'.arg).list, "|")))]_vars

\* addValidChildren('ol[li]') on an instance whose ol allowed ul: ol allows li
\* and '#comment' and no longer ul or ol.
C14_Witness ==
  \E i \in DOMAIN schemas :
    /\ Len(history) = 2 /\ Last.op = "addValidChildren" /\ Last.arg = "ol[li]"
    /\ isValidChild(World(i), "ol", "li") /\ isValidChild(World(i), "ol", "#comment")
    /\ ~isValidChild(World(i), "ol", "ul") /\ ~isValidChild(World(i), "ol", "ol")
    /\ ChildrenOf(World(i), "ol") = {"li", "#comment"}

(***************************************************************************)
(* Settings: the same process with the invalid_elements, custom_elements,  *)
(* valid_children and extended_valid_elements options, and with rules and  *)
(* custom elements named script.                                           *)
(***************************************************************************)

OptionSettings ==
  { [DefaultSettings EXCEPT !.schema = "html5", !.invalid_elements = "b,span"],
    [DefaultSettings EXCEPT !.valid_elements = "a[href],b,d*[x]",
                            !.invalid_elements = "b,dv"],
    [DefaultSettings EXCEPT !.schema = "html4", !.custom_elements = "bogus",
                            !.extended_valid_elements = "b[id]",
                            !.invalid_elements = "bogus,b"],
    [DefaultSettings EXCEPT !.schema = "html5-strict", !.valid_elements = "script[src],a"],
    [DefaultSettings EXCEPT !.schema = "html5", !.custom_elements = "script"],
    [DefaultSettings EXCEPT !.schema = "html5", !.custom_elements = "~inl",
                            !.valid_children = "+p[script]"] }

OptionValidElements == { "script[src]", "a[href]", "s*[x]" }

OptionCustomElements == { "script", "bogus" }

OptionValidChildren == { "+p[script]", "script[p]" }

NextOptions ==
  \/ \E i \in Instances, settings \in OptionSettings : Construct(i, settings)
  \/ \E i \in Instances, arg \in OptionValidElements : AddValidElements(i, arg)
  \/ \E i \in Instances, arg \in OptionValidElements : SetValidElements(i, arg)
  \/ \E i \in Instances, arg \in OptionCustomElements : AddCustomElements(i, arg)
  \/ \E i \in Instances, arg \in OptionValidChildren : AddValidChildren(i, arg)

SpecOptions == Init /\ [][NextOptions]_vars

\* The names the invalid_elements option of instance i lists.
InvalidNames(i) ==
  IF Truthy(schemas[i].settings.invalid_elements)
  THEN Range(explode(schemas[i].settings.invalid_elements))
  ELSE {}

\* C15: after construction every name listed in invalid_elements has no rule:
\* getElementRule(name) is absent and isValid(name) is false, whatever the
\* other options are, also for span and for a name a wildcard rule matches.
C15_InvalidElementsDeleted ==
  \A i \in DOMAIN schemas :
    Last.op = "Schema"
      => \A name \in InvalidNames(i) :
           /\ ~getElementRule(World(i), name).found
           /\ ~isValid(World(i), name, Undefined)

\* The rule 'span[!data-mce-type|*]' the constructor adds when no rule matches
\* span.
IsInternalSpan(rule) ==
  /\ rule.attributesRequired = <<"data-mce-type">>
  /\ Len(rule.attributePatterns) = 1

\* C15 as amended: after construction a listed name other than span has no
\* exact rule, so getElementRule(name) is absent and isValid(name) false unless
\* a wildcard rule matches the name; span, when listed and matched by no
\* wildcard rule, has the internal rule span[!data-mce-type|*] only.
C15_InvalidElementsExactDeleted ==
  \A i \in DOMAIN schemas :
    Last.op = "Schema"
      => \A name \in InvalidNames(i) :
           /\ name \in DOMAIN schemas[i].elements
                => /\ name = "span"
                   /\ Matching(schemas[i].patternElements, "span") = {}
                   /\ IsInternalSpan(schemas[i].elements["span"])
           /\ name \notin DOMAIN schemas[i].elements
                => (getElementRule(World(i), name).found
                      <=> Matching(schemas[i].patternElements, name) # {})
           /\ isValid(World(i), name, Undefined) <=> getElementRule(World(i), name).found

\* Construction from the html5 defaults with invalid_elements 'b,span': b has
\* no rule, span has the internal rule.
C15_Witness ==
  \E i \in DOMAIN schemas :
    /\ Last.op = "Schema"
    /\ schemas[i].settings.invalid_elements = "b,span"
    /\ ~getElementRule(World(i), "b").found
    /\ getElementRule(World(i), "a").found
    /\ IsInternalSpan(schemas[i].elements["span"])

\* Whether a rule string parsed in one of the calls names the element, as
\* element name or as output name, or is a wildcard rule that matches it.
RuleSupplied(calls, name) ==
  \E c \in 1..Len(calls) : \E k \in 1..Len(calls[c].log) :
    \/ calls[c].log[k].elementName = name
    \/ calls[c].log[k].outputName = name
    \/ /\ hasPatternsRegExp(calls[c].log[k].elementName)
       /\ regExpTest(patternToRegExp(calls[c].log[k].elementName), name)

\* Whether valid_elements / extended_valid_elements at the construction of
\* instance i, or a later setValidElements / addValidElements call on it,
\* supplied a rule for the element.
Supplied(i, name) ==
  \E h \in 1..Len(history) :
    /\ history[h].inst = i
    /\ history[h].op \in {"Schema", "setValidElements", "addValidElements"}
    /\ RuleSupplied(history[h].calls, name)

\* C16: for every schema variant getElementRule('script') is absent after
\* construction and after any sequence of mutators unless a rule for script
\* was supplied through valid_elements / extended_valid_elements
\* (setValidElements / addValidElements); custom_elements, valid_children,
\* addCustomElements and addValidChildren never make script valid.
C16_ScriptAbsentUnlessSupplied ==
  \A i \in DOMAIN schemas :
    getElementRule(World(i), "script").found => Supplied(i, "script")

\* C16 as amended: ... unless a rule for script was supplied through
\* valid_elements / extended_valid_elements (setValidElements /
\* addValidElements) or script itself was registered as a custom element.
C16_ScriptAbsentUnlessSuppliedOrCustom ==
  \A i \in DOMAIN schemas :
    getElementRule(World(i), "script").found
      => Supplied(i, "script") \/ "script" \in DOMAIN schemas[i].customElementsMap

\* An instance built from the html5 defaults, then addValidChildren('+p[script]')
\* and addCustomElements('bogus'): script is a child of p and has no rule.
C16_Witness ==
  \E i \in DOMAIN schemas :
    /\ Len(history) = 3
    /\ schemas[i].settings.schema = "html5"
    /\ ~Truthy(schemas[i].settings.valid_elements)
    /\ history[2].op = "addValidChildren" /\ history[2].arg = "+p[script]"
    /\ Last.op = "addCustomElements" /\ Last.arg = "bogus"
    /\ isValidChild(World(i), "p", "script")
    /\ ~getElementRule(World(i), "script").found
    /\ ~isValid(World(i), "script", Undefined)

(***************************************************************************)
(* The cache: a process that constructs two schema instances.              *)
(***************************************************************************)

TwoInstances == {1, 2}

CacheSettings ==
  { [DefaultSettings EXCEPT !.schema = "html5"],
    [DefaultSettings EXCEPT !.schema = "html4"],
    [DefaultSettings EXCEPT !.schema = "html5", !.valid_children = "+p[div]"] }

NextCache ==
  \/ \E i \in TwoInstances, settings \in CacheSettings : Construct(i, settings)
  \/ \E i \in TwoInstances : AddCustomElements(i, "bogus")
  \/ \E i \in TwoInstances : AddValidChildren(i, "-div[p]")

SpecCache == Init /\ [][NextCache]_vars

\* C17: the base grammar table is memoized per variant: when an instance for
\* a variant has been constructed (and no addValidChildren call, which drops
\* the slot, was made since), a later construction for the same variant finds
\* the cache slot of the variant populated and takes its table from the slot:
\* the new instance has the child maps of the earlier one.
C17_BaseGrammarMemoized ==
  [][\A i \in DOMAIN schemas, j \in TwoInstances :
       (/\ Called(j, "Schema") /\ j \notin DOMAIN schemas /\ j \in DOMAIN schemas'
        /\ schemas'[j].settings.schema = schemas[i].settings.schema
        /\ \A h \in 1..Len(history) : history[h].op # "addValidChildren")
       => /\ mapCache.schema[schemas[i].settings.schema].cached
          /\ schemas'[j].schemaItems.children = schemas[i].schemaItems.children]_vars

(***************************************************************************)
(* Invariants of the tables                                                *)
(***************************************************************************)

\* No value occurs at two positions of the sequence.
NoDuplicates(seq) ==
  \A k, l \in 1..Len(seq) : seq[k] = seq[l] => k = l

\* C18: in every element rule of every instance, exact or wildcard, taken
\* from the base grammar or compiled by addValidElements, attributesOrder
\* holds no attribute name twice.
C18_AttributesOrderNoDuplicates ==
  \A i \in DOMAIN schemas :
    /\ \A name \in DOMAIN schemas[i].elements :
         NoDuplicates(schemas[i].elements[name].attributesOrder)
    /\ \A k \in 1..Len(schemas[i].patternElements) :
         NoDuplicates(schemas[i].patternElements[k].attributesOrder)

\* The names with a children entry are the names with an exact element rule.
Consistent(instance) == DOMAIN instance.children = DOMAIN instance.elements

\* C19: the children graph and the exact element table stay consistent: after
\* construction with any settings and after any sequence of mutators, a name
\* has a children entry if and only if it has an exact element rule.
C19_ChildrenMatchElements ==
  \A i \in DOMAIN schemas : Consistent(schemas[i])

\* Settings that take the element rules from the base grammar only.
BaseGrammarOnly(settings) ==
  /\ ~Truthy(settings.valid_elements) /\ settings.verify_html # FALSE
  /\ ~Truthy(settings.extended_valid_elements)
  /\ ~Truthy(settings.invalid_elements)
  /\ ~Truthy(settings.valid_children)

\* C19 as amended: after construction with settings that take the element
\* rules from the base grammar only, and after any sequence of
\* addCustomElements calls on that instance, a name has a children entry if
\* and only if it has an exact element rule.
C19_BaseGrammarChildrenMatchElements ==
  \A i \in DOMAIN schemas :
    (/\ BaseGrammarOnly(schemas[i].settings)
     /\ \A h \in 1..Len(history) :
          history[h].op \in {"Schema", "addCustomElements"} /\ ~history[h].raised)
    => Consistent(schemas[i])

\* The html5 defaults and addCustomElements('bogus'), addCustomElements('~Inl'):
\* both names have a rule and a children entry.
C19_Witness ==
  \E i \in DOMAIN schemas :
    /\ BaseGrammarOnly(schemas[i].settings)
    /\ Len(history) = 3
    /\ history[2].op = "addCustomElements" /\ history[2].arg = "bogus"
    /\ Last.op = "addCustomElements" /\ Last.arg = "~Inl"
    /\ {"bogus", "Inl"} \subseteq DOMAIN schemas[i].children
    /\ {"bogus", "Inl"} \subseteq DOMAIN schemas[i].elements
    /\ Consistent(schemas[i])

\* The parents and children, in several spellings, the case properties are
\* asked about.
CaseParents == { "tr", "TR", "Tr", "ol", "OL", "div", "zz" }

CaseChildren == { "td", "TD", "li", "Li", "LI", "bogus", "Bogus" }

\* The lower-case form of each of these names.
LowerOf == [n \in CaseParents \cup CaseChildren |-> ToLowerCase(n)]

\* isValidChild answers for the pair as for the lower-case forms lp and lc of
\* its names, and answers true exactly when lp has a children entry that holds
\* lc.
CaseInsensitiveAt(w, answer, lp, lc) ==
  /\ answer = isValidChild(w, lp, lc)
  /\ answer <=> (lp \in DOMAIN w.children /\ lc \in ChildrenOf(w, lp))

CaseInsensitive(w) ==
  \A parent \in CaseParents, child \in CaseChildren :
    CaseInsensitiveAt(w, isValidChild(w, parent, child), LowerOf[parent], LowerOf[child])

\* C20: isValidChild is case-insensitive in both arguments:
\* isValidChild(parent, child) = isValidChild(lower(parent), lower(child)), it
\* is false whenever the lower-cased parent has no children entry or the
\* lower-cased child is not in it, and isValidChild('TR','TD') is true on a
\* newly constructed schema.
C20_IsValidChildCaseInsensitive ==
  \A i \in DOMAIN schemas :
    /\ CaseInsensitive(World(i))
    /\ Last.op = "Schema" => isValidChild(World(i), "TR", "TD")

\* After addValidChildren('ol[Li]') the entry of ol holds Li as written:
\* isValidChild('OL','LI') and isValidChild('ol','Li') are false, and
\* isValidChild('TR','TD') is true.
C20_Witness ==
  \E i \in DOMAIN schemas :
    /\ Last.op = "addValidChildren" /\ Last.arg = "ol[Li]"
    /\ "Li" \in ChildrenOf(World(i), "ol")
    /\ ~isValidChild(World(i), "OL", "LI") /\ ~isValidChild(World(i), "ol", "Li")
    /\ isValidChild(World(i), "TR", "TD") /\ isValidChild(World(i), "tr", "td")
    /\ "TR" \notin DOMAIN schemas[i].children

(***************************************************************************)
(* Shared objects: the classification maps of two instances, the child     *)
(* maps of one instance, and the elements field of the returned object.    *)
(***************************************************************************)

\* C21: instances are isolated with respect to the block elements: for two
\* instances created in any order, addCustomElements(n) with a block name n on
\* one never changes what getBlockElements() of the other returns.
C21_BlockElementsIsolated ==
  [][\A i, j \in DOMAIN schemas :
       (i # j /\ Called(i, "addCustomElements") /\ Head(Last'.arg) # "~")
         => getBlockElements(WorldAfter(j)) = getBlockElements(World(j))]_vars

LookupSettings ==
  { [DefaultSettings EXCEPT !.schema = "html5"],
    [DefaultSettings EXCEPT !.schema = "html5", !.text_block_elements = "p"],
    [DefaultSettings EXCEPT !.schema = "html5", !.block_elements = "div,li"] }

NextLookup ==
  \/ \E i \in TwoInstances, settings \in LookupSettings : Construct(i, settings)
  \/ \E i \in TwoInstances : AddCustomElements(i, "bogus")

SpecLookup == Init /\ [][NextLookup]_vars

\* The keys of the default map of a classification table: the default names
\* and their upper-case forms.
DefaultNames(defaultValue) ==
  makeMap(defaultValue, " ") \cup makeMap(ToUpperCase(defaultValue), " ")

\* C22: a classification table for which the instance gives no override is
\* the built-in default of the table, extended with that instance's own
\* text-block table where the default is defined so, whatever instances were
\* constructed before and whatever overrides they used.
C22_DefaultTablesIndependent ==
  \A j \in DOMAIN schemas :
    (Last.op = "Schema" /\ Last.inst = j)
      => /\ ~Truthy(schemas[j].settings.text_block_elements)
              => heap[schemas[j].textBlockElementsMap]
                   = DefaultNames(TextBlockElementsDefault)
         /\ ~Truthy(schemas[j].settings.block_elements)
              => getBlockElements(World(j))
                   = DefaultNames(BlockElementsDefault)
                       \cup heap[schemas[j].textBlockElementsMap]

AliasSettings ==
  { [DefaultSettings EXCEPT !.schema = "html5"],
    [DefaultSettings EXCEPT !.schema = "html5", !.valid_children = "-div[div]"],
    [DefaultSettings EXCEPT !.schema = "html4", !.valid_children = "-span[span]"] }

AliasCustomElements == { "bogus", "~inl" }

AliasValidChildren == { "-div[p]", "+div[zz]", "+span[zz]", "+p[zz]" }

NextAlias ==
  \/ \E i \in Instances, settings \in AliasSettings : Construct(i, settings)
  \/ \E i \in Instances, arg \in AliasCustomElements : AddCustomElements(i, arg)
  \/ \E i \in Instances, arg \in AliasValidChildren : AddValidChildren(i, arg)

SpecAlias == Init /\ [][NextAlias]_vars

\* The parents and children the frame property is asked about.
FrameParents == { "div", "span", "p", "bogus", "inl", "body" }

FrameChildren == { "p", "div", "span", "zz", "bogus", "inl" }

\* The step is addValidChildren on instance i with the one rule matches, which
\* has a prefix.
EditsChildren(i, matches) ==
  /\ Called(i, "addValidChildren") /\ ~Last'.raised
  /\ Len(split(Last'.arg, ",")) = 1
  /\ matches.ok /\ matches.prefix \in {"+", "-"}

\* C23: addValidChildren changes only the child sets of the parents its rules
\* name: after any earlier mutators, addCustomElements among them, a '+p[...]'
\* or '-p[...]' rule leaves isValidChild(q, c) as it was for every parent q
\* other than p and every child c.
C23_OnlyNamedParentChanges ==
  [][\A i \in DOMAIN schemas :
       EditsChildren(i, childRuleRegExp(Last'.arg))
         => \A q \in FrameParents \ {childRuleRegExp(Last'.arg).name} :
              \A c \in FrameChildren :
                isValidChild(WorldAfter(i), q, c) = isValidChild(World(i), q, c)]_vars

\* C24: the elements field of a schema instance is the live exact element
\* table: after any sequence of mutators, setValidElements among them, it has
\* a rule under a name exactly when getElementRule resolves the name by exact
\* match, and it is that rule.
C24_ElementsFieldLive ==
  \A i \in DOMAIN schemas :
    \A name \in QueryNames :
      /\ name \in DOMAIN elementsField(i) <=> name \in DOMAIN schemas[i].elements
      /\ name \in DOMAIN elementsField(i)
           => /\ getElementRule(World(i), name).found
              /\ elementsField(i)[name] = getElementRule(World(i), name).rule

====
